---------------------------- MODULE Spec2Model ----------------------------
(***************************************************************************)
(* vtinput: terminal input decoder.  A producer goroutine pumps the bytes  *)
(* of an io.Reader into a bounded channel; Reader.ReadEvent appends them   *)
(* to its buffer and decodes one event per call (SS3, CSI dialects, ESC    *)
(* fallbacks, C0 codes, UTF-8), with a 100 ms timeout on incomplete        *)
(* ESC-headed input.  Bytes are integers 0..255; slices are sequences      *)
(* (index 1 of a sequence is index 0 of the Go slice).                     *)
(***************************************************************************)
EXTENDS Integers, Sequences, FiniteSets, TLC

(***************************************************************************)
(* Bounds of the model.                                                    *)
(***************************************************************************)
\* number of fragments concatenated into the source's byte stream
MaxFrags == 2
\* largest byte count one Read of the source returns (the code's tmp holds 256)
MaxChunk == 1
\* largest first parameter of the ESC [ n ~ sequences sent
MaxTilde == 25
\* longest byte slice handed to the CSI framer
MaxSlice == 4
\* largest Pb field of the SGR mouse sequences sent
MaxPb == 127
\* bytes the source delivers beyond the capacity of r.dataChan
Overrun == 1
\* calls of ReadEvent a caller makes while the queue is full
MaxCalls == 3
\* largest modifier parameter of the legacy CSI sequences sent
MaxMod == 16
\* largest modifiers field of the Kitty sequences sent
MaxKittyMod == 256
\* longest payload of the Kitty sequences written byte by byte
MaxPayload == 5

(***************************************************************************)
(* Program constants.                                                      *)
(***************************************************************************)
ESC == 27
DataChanCap == 1024
ErrChanCap == 1

\* ControlKeyState flags
RightAltPressed == 1
LeftAltPressed == 2
RightCtrlPressed == 4
LeftCtrlPressed == 8
ShiftPressed == 16
NumLockOn == 32
ScrollLockOn == 64
CapsLockOn == 128
EnhancedKey == 256

\* Mouse button states and event flags
FromLeft1stButtonPressed == 1
RightmostButtonPressed == 2
FromLeft2ndButtonPressed == 4
MouseMoved == 1

\* EventType
KeyEventType == 1
MouseEventType == 2
FocusEventType == 16
PasteEventType == 32

\* Virtual key codes and scan codes (Windows values)
VK_BACK == 8
VK_TAB == 9
VK_CLEAR == 12
VK_RETURN == 13
VK_SHIFT == 16
VK_CONTROL == 17
VK_MENU == 18
VK_CAPITAL == 20
VK_ESCAPE == 27
VK_SPACE == 32
VK_PRIOR == 33
VK_NEXT == 34
VK_END == 35
VK_HOME == 36
VK_LEFT == 37
VK_UP == 38
VK_RIGHT == 39
VK_DOWN == 40
VK_INSERT == 45
VK_DELETE == 46
VK_0 == 48
VK_6 == 54
VK_A == 65
VK_LWIN == 91
VK_RWIN == 92
VK_APPS == 93
VK_NUMPAD0 == 96
VK_MULTIPLY == 106
VK_ADD == 107
VK_SUBTRACT == 109
VK_DECIMAL == 110
VK_DIVIDE == 111
VK_F1 == 112
VK_F2 == 113
VK_F3 == 114
VK_F4 == 115
VK_F5 == 116
VK_F6 == 117
VK_F11 == 122
VK_NUMLOCK == 144
VK_UNASSIGNED == 151
VK_OEM_1 == 186
VK_OEM_PLUS == 187
VK_OEM_COMMA == 188
VK_OEM_MINUS == 189
VK_OEM_PERIOD == 190
VK_OEM_2 == 191
VK_OEM_3 == 192
VK_OEM_4 == 219
VK_OEM_5 == 220
VK_OEM_6 == 221
VK_OEM_7 == 222
ScanCodeLeftShift == 42
ScanCodeRightShift == 54

(***************************************************************************)
(* Integer helpers: bit tests on two's-complement ints (\div floors and %  *)
(* is non-negative, so negative values read as sign-extended), casts.      *)
(***************************************************************************)
HasBit(x, b) == (x \div b) % 2 = 1
OrBit(x, b) == IF HasBit(x, b) THEN x ELSE x + b
Uint16(x) == x % 65536
Min(a, b) == IF a < b THEN a ELSE b

IsDigit(b) == b >= 48 /\ b <= 57

RECURSIVE DecVal(_, _)
\* value of a run of decimal digits, most significant first
DecVal(s, acc) ==
  IF s = <<>> THEN acc ELSE DecVal(Tail(s), acc * 10 + (Head(s) - 48))

AllDigits(s) == \A i \in 1..Len(s) : IsDigit(s[i])

\* strconv.Atoi with its error dropped: an optional sign, then digits only;
\* a syntax error gives 0
Atoi(s) ==
  IF s = <<>> THEN 0
  ELSE LET signed == Head(s) = 43 \/ Head(s) = 45
           digits == IF signed THEN Tail(s) ELSE s
       IN IF digits = <<>> \/ ~AllDigits(digits) THEN 0
          ELSE IF Head(s) = 45 THEN 0 - DecVal(digits, 0) ELSE DecVal(digits, 0)

\* strconv.ParseUint(s, 10, 32) with its error dropped: digits only, no sign
ParseUintOrZero(s) ==
  IF s = <<>> \/ ~AllDigits(s) THEN 0 ELSE DecVal(s, 0)

RECURSIVE SplitFrom(_, _, _)
\* strings.Split(s, sep) for a one-byte separator: cur is the field being read
SplitFrom(s, sep, cur) ==
  IF s = <<>> THEN <<cur>>
  ELSE IF Head(s) = sep THEN <<cur>> \o SplitFrom(Tail(s), sep, <<>>)
  ELSE SplitFrom(Tail(s), sep, Append(cur, Head(s)))

Split(s, sep) == SplitFrom(s, sep, <<>>)

\* data[from:] of a Go slice (from is 0-based)
SliceFrom(data, from) == SubSeq(data, from + 1, Len(data))
\* data[from:to] of a Go slice
Slice(data, from, to) == SubSeq(data, from + 1, to)

(***************************************************************************)
(* unicode/utf8 as the reader calls it.                                    *)
(***************************************************************************)
\* encoded length announced by a leading byte; 1 for ASCII and for bytes
\* that cannot start a scalar (utf8.first)
Utf8Need(b) ==
  IF b < 128 THEN 1
  ELSE IF b < 194 THEN 1
  ELSE IF b < 224 THEN 2
  ELSE IF b < 240 THEN 3
  ELSE IF b < 245 THEN 4
  ELSE 1

Utf8LeadInvalid(b) == (b >= 128 /\ b < 194) \/ b >= 245

\* accepted range of the second byte (utf8.acceptRanges)
Utf8Lo(b) == IF b = 224 THEN 160 ELSE IF b = 240 THEN 144 ELSE 128
Utf8Hi(b) == IF b = 237 THEN 159 ELSE IF b = 244 THEN 143 ELSE 191

IsCont(b) == b >= 128 /\ b <= 191

\* utf8.FullRune: the bytes begin with a full encoding; an invalid encoding
\* counts as a full rune of width 1
FullRune(p) ==
  IF p = <<>> THEN FALSE
  ELSE LET n == Len(p)
           b == p[1]
       IN \/ n >= Utf8Need(b)
          \/ n > 1 /\ (p[2] < Utf8Lo(b) \/ p[2] > Utf8Hi(b))
          \/ n > 2 /\ ~IsCont(p[3])

RuneError == 65533

\* utf8.DecodeRune: [r |-> scalar, size |-> width]; (RuneError, 1) for an
\* invalid or too short encoding, (RuneError, 0) for no bytes
DecodeRune(p) ==
  IF p = <<>> THEN [r |-> RuneError, size |-> 0]
  ELSE LET n == Len(p)
           b == p[1]
           need == Utf8Need(b)
           bad == [r |-> RuneError, size |-> 1]
       IN IF b < 128 THEN [r |-> b, size |-> 1]
          ELSE IF Utf8LeadInvalid(b) \/ n < need THEN bad
          ELSE IF p[2] < Utf8Lo(b) \/ p[2] > Utf8Hi(b) THEN bad
          ELSE IF need = 2 THEN [r |-> (b % 32) * 64 + (p[2] % 64), size |-> 2]
          ELSE IF ~IsCont(p[3]) THEN bad
          ELSE IF need = 3
            THEN [r |-> (b % 16) * 4096 + (p[2] % 64) * 64 + (p[3] % 64), size |-> 3]
          ELSE IF ~IsCont(p[4]) THEN bad
          ELSE [r |-> (b % 8) * 262144 + (p[2] % 64) * 4096 + (p[3] % 64) * 64
                      + (p[4] % 64), size |-> 4]

\* utf8.ValidRune
ValidRune(r) == (r >= 0 /\ r < 55296) \/ (r > 57343 /\ r <= 1114111)

\* unicode.ToLower on 'A'..'Z' (the only range ParseKitty passes)
ToLowerAscii(c) == IF c >= 65 /\ c <= 90 THEN c + 32 ELSE c

\* unicode.ToUpper on ASCII, Latin-1 and basic Cyrillic; other scalars,
\* which ParseKitty can also pass, map to themselves here
ToUpper(c) ==
  IF c >= 97 /\ c <= 122 THEN c - 32
  ELSE IF c = 181 THEN 924
  ELSE IF c >= 224 /\ c <= 254 /\ c # 247 THEN c - 32
  ELSE IF c = 255 THEN 376
  ELSE IF c >= 1072 /\ c <= 1103 THEN c - 32
  ELSE IF c >= 1104 /\ c <= 1119 THEN c - 80
  ELSE c

(***************************************************************************)
(* InputEvent and the parsers' results.                                    *)
(***************************************************************************)
\* the zero value of InputEvent; Type 0 stands for a nil *InputEvent
ZeroEvent ==
  [Type |-> 0, VirtualKeyCode |-> 0, VirtualScanCode |-> 0, Char |-> 0,
   UnshiftedChar |-> 0, KeyDown |-> FALSE, RepeatCount |-> 0,
   MouseX |-> 0, MouseY |-> 0, ButtonState |-> 0, MouseEventFlags |-> 0,
   WheelDirection |-> 0, SetFocus |-> FALSE, PasteStart |-> FALSE,
   ControlKeyState |-> 0, IsLegacy |-> FALSE]

ErrIncomplete == "ErrIncomplete"
ErrInvalidSequence == "ErrInvalidSequence"
NoErr == "nil"
\* the run-time panic of an array index out of range
PanicIndex == "panic: index out of range"

\* a parser's (event, consumed, err)
Fail(e) == [event |-> ZeroEvent, consumed |-> 0, err |-> e]
Ok(ev, n) == [event |-> ev, consumed |-> n, err |-> NoErr]

(***************************************************************************)
(* CSI framer.                                                             *)
(***************************************************************************)
RECURSIVE ScanCSILoop_EndInvalid(_, _)
\* variant: a frame that ends before its terminator is reported invalid
ScanCSILoop_EndInvalid(data, i) ==
  IF i >= Len(data)
    THEN [terminatorIdx |-> 0, command |-> 0, err |-> ErrInvalidSequence]
  ELSE LET b == data[i + 1]
       IN IF b >= 64 /\ b <= 126
            THEN [terminatorIdx |-> i, command |-> b, err |-> NoErr]
          ELSE IF b < 32 \/ b > 63
            THEN [terminatorIdx |-> 0, command |-> 0, err |-> ErrInvalidSequence]
          ELSE ScanCSILoop_EndInvalid(data, i + 1)

RECURSIVE ScanCSILoop(_, _)
\* the for loop of scanCSI; i is the Go index
ScanCSILoop(data, i) ==
  IF i >= Len(data) THEN [terminatorIdx |-> 0, command |-> 0, err |-> ErrIncomplete]
  ELSE LET b == data[i + 1]
       IN IF b >= 64 /\ b <= 126
            THEN [terminatorIdx |-> i, command |-> b, err |-> NoErr]
          ELSE IF b < 32 \/ b > 63
            THEN [terminatorIdx |-> 0, command |-> 0, err |-> ErrInvalidSequence]
          ELSE ScanCSILoop(data, i + 1)

\* variant: the two leading bytes are not examined
scanCSI_NoHeader(data) ==
  IF Len(data) < 2 THEN [terminatorIdx |-> 0, command |-> 0, err |-> ErrIncomplete]
  ELSE ScanCSILoop(data, 2)

scanCSI(data) ==
  IF Len(data) < 2 THEN [terminatorIdx |-> 0, command |-> 0, err |-> ErrIncomplete]
  ELSE IF data[1] # ESC \/ data[2] # 91
    THEN [terminatorIdx |-> 0, command |-> 0, err |-> ErrInvalidSequence]
  ELSE ScanCSILoop(data, 2)


(***************************************************************************)
(* Modifier decoding and the legacy key tables.                            *)
(***************************************************************************)
\* variant: the modifier parameter taken as the bitmask itself, not
\* decremented
decodeAnsiModifiers_NoDecrement(modCode) ==
  LET bits == modCode
      a1 == IF HasBit(bits, 1) THEN ShiftPressed ELSE 0
      a2 == IF HasBit(bits, 2) THEN LeftAltPressed ELSE 0
      a3 == IF HasBit(bits, 4) THEN LeftCtrlPressed ELSE 0
      a4 == IF HasBit(bits, 8) THEN EnhancedKey ELSE 0
  IN a1 + a2 + a3 + a4

\* decodeAnsiModifiers: modCode is 1 + bitmask
decodeAnsiModifiers(modCode) ==
  LET bits == modCode - 1
      a1 == IF HasBit(bits, 1) THEN ShiftPressed ELSE 0
      a2 == IF HasBit(bits, 2) THEN LeftAltPressed ELSE 0
      a3 == IF HasBit(bits, 4) THEN LeftCtrlPressed ELSE 0
      a4 == IF HasBit(bits, 8) THEN EnhancedKey ELSE 0
  IN a1 + a2 + a3 + a4

mapCSICommandToVK(command) ==
  CASE command = 65 -> VK_UP
    [] command = 66 -> VK_DOWN
    [] command = 67 -> VK_RIGHT
    [] command = 68 -> VK_LEFT
    [] command = 72 -> VK_HOME
    [] command = 70 -> VK_END
    [] command = 80 -> VK_F1
    [] command = 81 -> VK_F2
    [] command = 82 -> VK_F3
    [] command = 83 -> VK_F4
    [] command = 90 -> VK_TAB
    [] OTHER -> 0

mapTildeToVK(code) ==
  CASE code = 1 \/ code = 7 -> VK_HOME
    [] code = 2 -> VK_INSERT
    [] code = 3 -> VK_DELETE
    [] code = 4 \/ code = 8 -> VK_END
    [] code = 5 -> VK_PRIOR
    [] code = 6 -> VK_NEXT
    [] code >= 11 /\ code <= 15 -> Uint16(VK_F1 + (code - 11))
    [] code >= 17 /\ code <= 21 -> Uint16(VK_F6 + (code - 17))
    [] code = 23 \/ code = 24 -> Uint16(VK_F11 + (code - 23))
    [] OTHER -> 0

(***************************************************************************)
(* Win32 Input Mode parser: CSI Vk ; Sc ; Uc ; Kd ; Cs ; Rc _              *)
(***************************************************************************)
\* variant: the scan code is read from the first field
Win32Event_ScanFromFirst(params, n, rc) ==
  [ZeroEvent EXCEPT
     !.Type = KeyEventType,
     !.VirtualKeyCode = IF n > 0 THEN Uint16(ParseUintOrZero(params[1])) ELSE 0,
     !.VirtualScanCode = IF n > 1 THEN Uint16(ParseUintOrZero(params[1])) ELSE 0,
     !.Char = IF n > 2 THEN ParseUintOrZero(params[3]) ELSE 0,
     !.KeyDown = n > 3 /\ ParseUintOrZero(params[4]) = 1,
     !.ControlKeyState = IF n > 4 THEN ParseUintOrZero(params[5]) ELSE 0,
     !.RepeatCount = IF rc > 0 THEN Uint16(rc) ELSE 1]

\* the event built from the ';'-separated fields, n of them, rc the sixth
Win32Event(params, n, rc) ==
  [ZeroEvent EXCEPT
     !.Type = KeyEventType,
     !.VirtualKeyCode = IF n > 0 THEN Uint16(ParseUintOrZero(params[1])) ELSE 0,
     !.VirtualScanCode = IF n > 1 THEN Uint16(ParseUintOrZero(params[2])) ELSE 0,
     !.Char = IF n > 2 THEN ParseUintOrZero(params[3]) ELSE 0,
     !.KeyDown = n > 3 /\ ParseUintOrZero(params[4]) = 1,
     !.ControlKeyState = IF n > 4 THEN ParseUintOrZero(params[5]) ELSE 0,
     !.RepeatCount = IF rc > 0 THEN Uint16(rc) ELSE 1]

\* the sixth field (Rc) as parsed, 0 when there is none
Win32Rc(params) == IF Len(params) > 5 THEN ParseUintOrZero(params[6]) ELSE 0

\* ParseWin32InputEvent after its scanCSI call returned sc
Win32Framed(data, sc) ==
  IF sc.err # NoErr THEN Fail(sc.err)
  ELSE IF sc.command # 95 THEN Fail(ErrInvalidSequence)
  ELSE Ok(LET params == Split(Slice(data, 2, sc.terminatorIdx), 59)
          IN Win32Event(params, Len(params), Win32Rc(params)),
          sc.terminatorIdx + 1)

ParseWin32InputEvent(data) == Win32Framed(data, scanCSI(data))

(***************************************************************************)
(* Legacy CSI parser.                                                      *)
(***************************************************************************)
\* getParam of ParseLegacyCSI: the idx-th field (0-based), def when the
\* field is missing or empty
getParam(params, idx, def) ==
  IF Len(params) <= idx \/ params[idx + 1] = <<>> THEN def
  ELSE Atoi(params[idx + 1])

\* variant: the legacy CSI event without its KeyDown
LegacyCSIEvent_NoKeyDown(command, vk, mods) ==
  [ZeroEvent EXCEPT
     !.Type = KeyEventType,
     !.ControlKeyState = IF command = 90 THEN OrBit(mods, ShiftPressed) ELSE mods,
     !.IsLegacy = TRUE,
     !.VirtualKeyCode = vk]

\* the event of ParseLegacyCSI for terminator command, VK vk and the
\* decoded modifiers mods
LegacyCSIEvent(command, vk, mods) ==
  [ZeroEvent EXCEPT
     !.Type = KeyEventType,
     !.KeyDown = TRUE,
     !.ControlKeyState = IF command = 90 THEN OrBit(mods, ShiftPressed) ELSE mods,
     !.IsLegacy = TRUE,
     !.VirtualKeyCode = vk]

\* the VK ParseLegacyCSI selects: by the first parameter for '~', else by
\* the terminator
LegacyCSIVK(command, params) ==
  IF command = 126 THEN mapTildeToVK(getParam(params, 0, 0))
  ELSE mapCSICommandToVK(command)

\* ParseLegacyCSI once the payload is split
LegacyCSIParams(command, terminatorIdx, params, vk) ==
  IF vk = 0 THEN Fail(ErrInvalidSequence)
  ELSE Ok(LegacyCSIEvent(command, vk, decodeAnsiModifiers(getParam(params, 1, 1))),
          terminatorIdx + 1)

\* ParseLegacyCSI after its scanCSI call returned sc
LegacyCSIFramed(data, sc) ==
  IF sc.err # NoErr THEN Fail(sc.err)
  ELSE LET params == Split(Slice(data, 2, sc.terminatorIdx), 59)
       IN LegacyCSIParams(sc.command, sc.terminatorIdx, params,
                          LegacyCSIVK(sc.command, params))

ParseLegacyCSI(data) == LegacyCSIFramed(data, scanCSI(data))

(***************************************************************************)
(* Legacy SS3 parser: ESC O <letter>                                       *)
(***************************************************************************)
\* variant: the cases 'H' and 'F' exchanged
SS3VK_HomeEndSwapped(b) ==
  CASE b = 80 -> VK_F1
    [] b = 81 -> VK_F2
    [] b = 82 -> VK_F3
    [] b = 83 -> VK_F4
    [] b = 72 -> VK_END
    [] b = 70 -> VK_HOME
    [] OTHER -> 0

SS3VK(b) ==
  CASE b = 80 -> VK_F1
    [] b = 81 -> VK_F2
    [] b = 82 -> VK_F3
    [] b = 83 -> VK_F4
    [] b = 72 -> VK_HOME
    [] b = 70 -> VK_END
    [] OTHER -> 0

\* variant: ESC O without its third byte is reported invalid
ParseLegacySS3_ShortInvalid(data) ==
  IF Len(data) < 2 THEN Fail(ErrIncomplete)
  ELSE IF data[1] # ESC \/ data[2] # 79 THEN Fail(ErrInvalidSequence)
  ELSE IF Len(data) < 3 THEN Fail(ErrInvalidSequence)
  ELSE IF SS3VK(data[3]) = 0 THEN Fail(ErrInvalidSequence)
  ELSE Ok([ZeroEvent EXCEPT !.Type = KeyEventType, !.KeyDown = TRUE,
                            !.IsLegacy = TRUE,
                            !.VirtualKeyCode = SS3VK(data[3])], 3)

ParseLegacySS3(data) ==
  IF Len(data) < 2 THEN Fail(ErrIncomplete)
  ELSE IF data[1] # ESC \/ data[2] # 79 THEN Fail(ErrInvalidSequence)
  ELSE IF Len(data) < 3 THEN Fail(ErrIncomplete)
  ELSE IF SS3VK(data[3]) = 0 THEN Fail(ErrInvalidSequence)
  ELSE Ok([ZeroEvent EXCEPT !.Type = KeyEventType, !.KeyDown = TRUE,
                            !.IsLegacy = TRUE,
                            !.VirtualKeyCode = SS3VK(data[3])], 3)

(***************************************************************************)
(* SGR mouse parser: CSI < Pb ; X ; Y M|m                                  *)
(***************************************************************************)
\* variant: the wheel directions exchanged
MouseEvent_WheelSwapped(pb, px, py, command) ==
  [ZeroEvent EXCEPT
     !.Type = MouseEventType,
     !.MouseX = Uint16(px),
     !.MouseY = Uint16(py),
     !.KeyDown = (command = 77),
     !.WheelDirection =
        IF HasBit(pb, 64) /\ pb % 4 = 0 THEN -1
        ELSE IF HasBit(pb, 64) /\ pb % 4 = 1 THEN 1 ELSE 0,
     !.ButtonState =
        IF HasBit(pb, 64) THEN 0
        ELSE IF pb % 4 = 0 THEN FromLeft1stButtonPressed
        ELSE IF pb % 4 = 1 THEN FromLeft2ndButtonPressed
        ELSE IF pb % 4 = 2 THEN RightmostButtonPressed
        ELSE 0,
     !.MouseEventFlags = IF HasBit(pb, 32) THEN MouseMoved ELSE 0,
     !.ControlKeyState =
        (IF HasBit(pb, 4) THEN ShiftPressed ELSE 0)
        + (IF HasBit(pb, 8) THEN LeftAltPressed ELSE 0)
        + (IF HasBit(pb, 16) THEN LeftCtrlPressed ELSE 0)]

\* the event of ParseMouseSGR for the decoded Pb, X, Y and the terminator
MouseEvent(pb, px, py, command) ==
  [ZeroEvent EXCEPT
     !.Type = MouseEventType,
     !.MouseX = Uint16(px),
     !.MouseY = Uint16(py),
     !.KeyDown = (command = 77),
     !.WheelDirection =
        IF HasBit(pb, 64) /\ pb % 4 = 0 THEN 1
        ELSE IF HasBit(pb, 64) /\ pb % 4 = 1 THEN -1 ELSE 0,
     !.ButtonState =
        IF HasBit(pb, 64) THEN 0
        ELSE IF pb % 4 = 0 THEN FromLeft1stButtonPressed
        ELSE IF pb % 4 = 1 THEN FromLeft2ndButtonPressed
        ELSE IF pb % 4 = 2 THEN RightmostButtonPressed
        ELSE 0,
     !.MouseEventFlags = IF HasBit(pb, 32) THEN MouseMoved ELSE 0,
     !.ControlKeyState =
        (IF HasBit(pb, 4) THEN ShiftPressed ELSE 0)
        + (IF HasBit(pb, 8) THEN LeftAltPressed ELSE 0)
        + (IF HasBit(pb, 16) THEN LeftCtrlPressed ELSE 0)]

\* ParseMouseSGR once the payload after '<' is split
MouseParams(params, terminatorIdx, command) ==
  IF Len(params) < 3 THEN Fail(ErrInvalidSequence)
  ELSE Ok(MouseEvent(Atoi(params[1]), Atoi(params[2]), Atoi(params[3]), command),
          terminatorIdx + 1)

\* ParseMouseSGR after its scanCSI call returned sc
MouseFramed(data, sc) ==
  IF sc.err # NoErr THEN Fail(sc.err)
  ELSE IF Len(data) < 3 \/ data[3] # 60 THEN Fail(ErrInvalidSequence)
  ELSE MouseParams(Split(Slice(data, 3, sc.terminatorIdx), 59),
                   sc.terminatorIdx, sc.command)

ParseMouseSGR(data) == MouseFramed(data, scanCSI(data))

(***************************************************************************)
(* Kitty Keyboard Protocol parser.                                         *)
(***************************************************************************)
KittyValidTerm(command) ==
  command \in {117, 126, 65, 66, 67, 68, 69, 70, 72, 80, 81, 82, 83}

RECURSIVE DigitRunEnd(_, _)
\* Go index just past the run of digits that starts at Go index i
DigitRunEnd(s, i) ==
  IF i < Len(s) /\ IsDigit(s[i + 1]) THEN DigitRunEnd(s, i + 1) ELSE i

RECURSIVE KittyParams(_, _, _, _, _)
\* variant: a third group is let through (firstCount >= 3 ends the loop)
KittyParams_ThreeGroups(s, i, firstCount, secondCount, params) ==
  IF i >= Len(s) THEN [ok |-> TRUE, params |-> params, panic |-> FALSE]
  ELSE LET c == s[i + 1]
       IN IF c = 59
            THEN IF firstCount + 1 >= 3
                   THEN [ok |-> FALSE, params |-> params, panic |-> FALSE]
                 ELSE KittyParams(s, i + 1, firstCount + 1, 0, params)
          ELSE IF c = 58
            THEN IF secondCount + 1 >= 3
                   THEN [ok |-> FALSE, params |-> params, panic |-> FALSE]
                 ELSE KittyParams(s, i + 1, firstCount, secondCount + 1, params)
          ELSE IF IsDigit(c)
            THEN IF firstCount >= 2 \/ secondCount >= 3
                   THEN [ok |-> FALSE, params |-> params, panic |-> TRUE]
                 ELSE KittyParams(s, DigitRunEnd(s, i), firstCount, secondCount,
                        [params EXCEPT ![firstCount + 1][secondCount + 1] =
                           DecVal(Slice(s, i, DigitRunEnd(s, i)), 0)])
          ELSE [ok |-> FALSE, params |-> params, panic |-> FALSE]

\* the payload loop of ParseKitty: params is the [2][3]int table, firstCount
\* the group index, secondCount the sub-parameter index; panic is Go's
\* run-time panic on an array index out of range
KittyParams(s, i, firstCount, secondCount, params) ==
  IF i >= Len(s) THEN [ok |-> TRUE, params |-> params, panic |-> FALSE]
  ELSE LET c == s[i + 1]
       IN IF c = 59
            THEN IF firstCount + 1 >= 2
                   THEN [ok |-> FALSE, params |-> params, panic |-> FALSE]
                 ELSE KittyParams(s, i + 1, firstCount + 1, 0, params)
          ELSE IF c = 58
            THEN IF secondCount + 1 >= 3
                   THEN [ok |-> FALSE, params |-> params, panic |-> FALSE]
                 ELSE KittyParams(s, i + 1, firstCount, secondCount + 1, params)
          ELSE IF IsDigit(c)
            THEN IF firstCount >= 2 \/ secondCount >= 3
                   THEN [ok |-> FALSE, params |-> params, panic |-> TRUE]
                 ELSE KittyParams(s, DigitRunEnd(s, i), firstCount, secondCount,
                        [params EXCEPT ![firstCount + 1][secondCount + 1] =
                           DecVal(Slice(s, i, DigitRunEnd(s, i)), 0)])
          ELSE [ok |-> FALSE, params |-> params, panic |-> FALSE]

\* the VK chosen from baseChar before the terminator's override
KittyBaseVK(baseChar, command) ==
  LET tilde == command = 126
  IN CASE baseChar = 96 -> VK_OEM_3
       [] baseChar = 45 -> VK_OEM_MINUS
       [] baseChar = 61 -> VK_OEM_PLUS
       [] baseChar = 91 -> VK_OEM_4
       [] baseChar = 93 -> VK_OEM_6
       [] baseChar = 92 -> VK_OEM_5
       [] baseChar = 59 -> VK_OEM_1
       [] baseChar = 39 -> VK_OEM_7
       [] baseChar = 44 -> VK_OEM_COMMA
       [] baseChar = 46 -> VK_OEM_PERIOD
       [] baseChar = 47 -> VK_OEM_2
       [] baseChar = 9 -> VK_TAB
       [] baseChar = 27 -> VK_ESCAPE
       [] baseChar = 13 -> IF tilde THEN VK_F3 ELSE VK_RETURN
       [] baseChar = 127 -> VK_BACK
       [] baseChar = 2 -> IF tilde THEN VK_INSERT ELSE 0
       [] baseChar = 3 -> IF tilde THEN VK_DELETE ELSE 0
       [] baseChar = 5 -> IF tilde THEN VK_PRIOR ELSE 0
       [] baseChar = 6 -> IF tilde THEN VK_NEXT ELSE 0
       [] baseChar = 8 -> IF command = 117 THEN VK_BACK ELSE 0
       [] baseChar = 11 -> IF tilde THEN VK_F1 ELSE 0
       [] baseChar = 12 -> IF tilde THEN VK_F2 ELSE 0
       [] baseChar = 14 -> IF tilde THEN VK_F4 ELSE 0
       [] baseChar = 15 -> IF tilde THEN VK_F5 ELSE 0
       [] baseChar >= 17 /\ baseChar <= 21 -> IF tilde THEN VK_F6 + (baseChar - 17) ELSE 0
       [] baseChar = 23 \/ baseChar = 24 -> IF tilde THEN VK_F11 + (baseChar - 23) ELSE 0
       [] baseChar = 32 -> VK_SPACE
       [] baseChar = 57399 \/ baseChar = 57425 -> VK_NUMPAD0
       [] baseChar = 57400 \/ baseChar = 57424 -> VK_NUMPAD0 + 1
       [] baseChar = 57401 \/ baseChar = 57420 -> VK_NUMPAD0 + 2
       [] baseChar = 57402 \/ baseChar = 57422 -> VK_NUMPAD0 + 3
       [] baseChar = 57403 \/ baseChar = 57417 -> VK_NUMPAD0 + 4
       [] baseChar = 57404 \/ baseChar = 57427 -> VK_NUMPAD0 + 5
       [] baseChar = 57405 \/ baseChar = 57418 -> VK_NUMPAD0 + 6
       [] baseChar = 57406 \/ baseChar = 57423 -> VK_NUMPAD0 + 7
       [] baseChar = 57407 \/ baseChar = 57419 -> VK_NUMPAD0 + 8
       [] baseChar = 57408 \/ baseChar = 57421 -> VK_NUMPAD0 + 9
       [] baseChar = 57409 \/ baseChar = 57426 -> VK_DECIMAL
       [] baseChar = 57410 -> VK_DIVIDE
       [] baseChar = 57411 -> VK_MULTIPLY
       [] baseChar = 57412 -> VK_SUBTRACT
       [] baseChar = 57413 -> VK_ADD
       [] baseChar = 57414 -> VK_RETURN
       [] baseChar = 57444 -> VK_LWIN
       [] baseChar = 57450 -> VK_RWIN
       [] baseChar = 57363 -> VK_APPS
       [] baseChar = 57448 \/ baseChar = 57442 -> VK_CONTROL
       [] baseChar = 57443 \/ baseChar = 57449 -> VK_MENU
       [] baseChar = 57441 \/ baseChar = 57447 -> VK_SHIFT
       [] baseChar = 57360 -> VK_NUMLOCK
       [] baseChar = 57358 -> VK_CAPITAL
       [] baseChar >= 48 /\ baseChar <= 57 -> Uint16(baseChar - 48 + 48)
       [] baseChar >= 97 /\ baseChar <= 122 -> Uint16(baseChar - 97 + 65)
       [] OTHER -> 0

\* the scan code set for the two Shift keys
KittyBaseScan(baseChar) ==
  IF baseChar = 57441 THEN ScanCodeLeftShift
  ELSE IF baseChar = 57447 THEN ScanCodeRightShift
  ELSE 0

RECURSIVE OrBits(_, _)
\* x with every flag of the sequence bits ORed in
OrBits(x, bits) ==
  IF bits = <<>> THEN x ELSE OrBits(OrBit(x, Head(bits)), Tail(bits))

\* variant: the modifier-key codes set their bit on a release too
KittyBaseMods_OnRelease(baseChar, command, eventType) ==
  CASE (baseChar = 5 \/ baseChar = 6) /\ command = 126 -> <<EnhancedKey>>
    [] baseChar = 57448 -> <<RightCtrlPressed, EnhancedKey>>
    [] baseChar = 57442 -> <<LeftCtrlPressed>>
    [] baseChar = 57443 -> <<LeftAltPressed>>
    [] baseChar = 57449 -> <<RightAltPressed, EnhancedKey>>
    [] (baseChar = 57441 \/ baseChar = 57447) -> <<ShiftPressed>>
    [] OTHER -> <<>>

\* the ControlKeyState bits the baseChar switch ORs in
KittyBaseMods(baseChar, command, eventType) ==
  LET press == eventType # 3
  IN CASE (baseChar = 5 \/ baseChar = 6) /\ command = 126 -> <<EnhancedKey>>
       [] baseChar = 57448 /\ press -> <<RightCtrlPressed, EnhancedKey>>
       [] baseChar = 57442 /\ press -> <<LeftCtrlPressed>>
       [] baseChar = 57443 /\ press -> <<LeftAltPressed>>
       [] baseChar = 57449 /\ press -> <<RightAltPressed, EnhancedKey>>
       [] (baseChar = 57441 \/ baseChar = 57447) /\ press -> <<ShiftPressed>>
       [] OTHER -> <<>>

\* the terminator's VK override (0: none)
KittyCommandVK(command) ==
  CASE command = 65 -> VK_UP
    [] command = 66 -> VK_DOWN
    [] command = 67 -> VK_RIGHT
    [] command = 68 -> VK_LEFT
    [] command = 69 -> VK_CLEAR
    [] command = 72 -> VK_HOME
    [] command = 70 -> VK_END
    [] command = 80 -> VK_F1
    [] command = 81 -> VK_F2
    [] command = 82 -> VK_F3
    [] command = 83 -> VK_F4
    [] OTHER -> 0

KittyCommandEnhanced(command) == command \in {65, 66, 67, 68, 72, 70}

\* the modifiers field, decremented and decoded
\* variant: the Super bit is not decoded
KittyModifiers_NoSuper(modifState) ==
  IF modifState > 0
    THEN LET m == modifState - 1
         IN OrBits(0,
              (IF HasBit(m, 1) THEN <<ShiftPressed>> ELSE <<>>) \o
              (IF HasBit(m, 2) THEN <<LeftAltPressed>> ELSE <<>>) \o
              (IF HasBit(m, 4) THEN <<LeftCtrlPressed>> ELSE <<>>) \o
              (IF HasBit(m, 64) THEN <<CapsLockOn>> ELSE <<>>) \o
              (IF HasBit(m, 128) THEN <<NumLockOn>> ELSE <<>>))
    ELSE 0

KittyModifiers(modifState) ==
  IF modifState > 0
    THEN LET m == modifState - 1
         IN OrBits(0,
              (IF HasBit(m, 1) THEN <<ShiftPressed>> ELSE <<>>) \o
              (IF HasBit(m, 2) THEN <<LeftAltPressed>> ELSE <<>>) \o
              (IF HasBit(m, 4) THEN <<LeftCtrlPressed>> ELSE <<>>) \o
              (IF HasBit(m, 8) THEN <<LeftCtrlPressed>> ELSE <<>>) \o
              (IF HasBit(m, 64) THEN <<CapsLockOn>> ELSE <<>>) \o
              (IF HasBit(m, 128) THEN <<NumLockOn>> ELSE <<>>))
    ELSE 0

KittyAltKeepsCase(vk) ==
  vk \in {VK_ESCAPE, VK_DELETE, VK_BACK, VK_TAB, VK_RETURN, VK_SPACE}

\* baseChar: the third sub-parameter of the first group, else the first,
\* with 'A'..'Z' lowered
KittyBaseChar(params) ==
  IF params[1][3] = 0
    THEN (IF params[1][1] <= 255 THEN ToLowerAscii(params[1][1]) ELSE params[1][1])
    ELSE (IF params[1][3] <= 255 THEN ToLowerAscii(params[1][3]) ELSE params[1][3])

\* the VK after the terminator's override
KittyVK(baseChar, command) ==
  IF KittyCommandVK(command) # 0 THEN KittyCommandVK(command)
  ELSE KittyBaseVK(baseChar, command)

\* ControlKeyState: the modifiers field, the baseChar switch, the terminator
KittyMods(modifState, baseChar, command, eventType) ==
  OrBits(OrBits(KittyModifiers(modifState),
                KittyBaseMods(baseChar, command, eventType)),
         IF KittyCommandEnhanced(command) THEN <<EnhancedKey>> ELSE <<>>)

\* the carrier char before any uppercasing: uc is the second sub-parameter
\* of the first group, else the first
KittyChar(uc) ==
  IF uc < 32 \/ uc = 127 \/ (uc >= 57358 /\ uc <= 57454) THEN 0
  ELSE IF ValidRune(uc) THEN uc
  ELSE 0

KittyUc(params) == IF params[1][2] = 0 THEN params[1][1] ELSE params[1][2]

\* the char after the CapsLock rule
KittyCapsChar(char, mods) ==
  IF HasBit(mods, CapsLockOn) /\ ~HasBit(mods, ShiftPressed) THEN ToUpper(char)
  ELSE char

\* variant: Alt uppercases the char whatever the VK
KittyAltChar_AnyVK(char, mods, vk) ==
  IF (HasBit(mods, LeftAltPressed) \/ HasBit(mods, RightAltPressed))
     /\ char > 0
    THEN ToUpper(char)
  ELSE char

\* the char after the Alt rule; vk is the final VK
KittyAltChar(char, mods, vk) ==
  IF (HasBit(mods, LeftAltPressed) \/ HasBit(mods, RightAltPressed))
     /\ ~KittyAltKeepsCase(vk) /\ char > 0
    THEN ToUpper(char)
  ELSE char

\* the final VK: VK_UNASSIGNED when only a char is known
KittyFinalVK(vk, char) == IF char > 0 /\ vk = 0 THEN VK_UNASSIGNED ELSE vk

\* the event of ParseKitty from its decoded pieces
KittyEvent(params, baseChar, mods, vk, char) ==
  [ZeroEvent EXCEPT
     !.Type = KeyEventType,
     !.UnshiftedChar = IF params[1][1] > 0 THEN params[1][1] ELSE 0,
     !.ControlKeyState = mods,
     !.VirtualKeyCode = KittyFinalVK(vk, char),
     !.VirtualScanCode = KittyBaseScan(baseChar),
     !.Char = KittyAltChar(KittyCapsChar(char, mods), mods, KittyFinalVK(vk, char)),
     !.KeyDown = (params[2][2] # 3),
     !.RepeatCount = 1]

\* ParseKitty once the parameter table is filled
KittyDecode(params, baseChar, command) ==
  KittyEvent(params, baseChar,
             KittyMods(params[2][1], baseChar, command, params[2][2]),
             KittyVK(baseChar, command),
             KittyChar(KittyUc(params)))

\* ParseKitty after the payload loop returned kp
KittyParsed(kp, command, terminatorIdx) ==
  IF kp.panic THEN Fail(PanicIndex)
  ELSE IF ~kp.ok THEN Fail(ErrInvalidSequence)
  ELSE Ok(KittyDecode(kp.params, KittyBaseChar(kp.params), command),
          terminatorIdx + 1)

\* ParseKitty after its scanCSI call returned sc
KittyFramed(data, sc) ==
  IF sc.err # NoErr THEN Fail(sc.err)
  ELSE IF ~KittyValidTerm(sc.command) THEN Fail(ErrInvalidSequence)
  ELSE KittyParsed(KittyParams(Slice(data, 2, sc.terminatorIdx), 0, 0, 0,
                               <<<<0, 0, 0>>, <<0, 0, 0>>>>),
                   sc.command, sc.terminatorIdx)

ParseKitty(data) == KittyFramed(data, scanCSI(data))

(***************************************************************************)
(* C0 translator.                                                          *)
(***************************************************************************)
\* translateLegacyByte: ZeroEvent (nil) when r is no C0 code it knows
\* variant: Ctrl+A..Ctrl+Z numbered from VK_A + 1
translateLegacyByte_OffByOne(r) ==
  LET evt == [ZeroEvent EXCEPT !.Type = KeyEventType, !.KeyDown = TRUE,
                               !.IsLegacy = TRUE]
  IN CASE r = 0 -> [evt EXCEPT !.VirtualKeyCode = VK_SPACE, !.Char = 32,
                               !.ControlKeyState = LeftCtrlPressed]
       [] r = 8 -> [evt EXCEPT !.VirtualKeyCode = VK_BACK]
       [] r = 9 -> [evt EXCEPT !.VirtualKeyCode = VK_TAB, !.Char = 9]
       [] r = 13 -> [evt EXCEPT !.VirtualKeyCode = VK_RETURN, !.Char = 13]
       [] r = 27 -> [evt EXCEPT !.VirtualKeyCode = VK_ESCAPE]
       [] r = 28 -> [evt EXCEPT !.VirtualKeyCode = VK_OEM_5,
                                !.ControlKeyState = LeftCtrlPressed]
       [] r = 29 -> [evt EXCEPT !.VirtualKeyCode = VK_OEM_6,
                                !.ControlKeyState = LeftCtrlPressed]
       [] r = 30 -> [evt EXCEPT !.VirtualKeyCode = VK_6,
                                !.ControlKeyState = LeftCtrlPressed]
       [] r = 31 -> [evt EXCEPT !.VirtualKeyCode = VK_OEM_MINUS,
                                !.ControlKeyState = LeftCtrlPressed]
       [] r >= 1 /\ r <= 26 /\ r \notin {8, 9, 13}
            -> [evt EXCEPT !.VirtualKeyCode = Uint16(VK_A + r),
                           !.ControlKeyState = LeftCtrlPressed]
       [] OTHER -> ZeroEvent

translateLegacyByte(r) ==
  LET evt == [ZeroEvent EXCEPT !.Type = KeyEventType, !.KeyDown = TRUE,
                               !.IsLegacy = TRUE]
  IN CASE r = 0 -> [evt EXCEPT !.VirtualKeyCode = VK_SPACE, !.Char = 32,
                               !.ControlKeyState = LeftCtrlPressed]
       [] r = 8 -> [evt EXCEPT !.VirtualKeyCode = VK_BACK]
       [] r = 9 -> [evt EXCEPT !.VirtualKeyCode = VK_TAB, !.Char = 9]
       [] r = 13 -> [evt EXCEPT !.VirtualKeyCode = VK_RETURN, !.Char = 13]
       [] r = 27 -> [evt EXCEPT !.VirtualKeyCode = VK_ESCAPE]
       [] r = 28 -> [evt EXCEPT !.VirtualKeyCode = VK_OEM_5,
                                !.ControlKeyState = LeftCtrlPressed]
       [] r = 29 -> [evt EXCEPT !.VirtualKeyCode = VK_OEM_6,
                                !.ControlKeyState = LeftCtrlPressed]
       [] r = 30 -> [evt EXCEPT !.VirtualKeyCode = VK_6,
                                !.ControlKeyState = LeftCtrlPressed]
       [] r = 31 -> [evt EXCEPT !.VirtualKeyCode = VK_OEM_MINUS,
                                !.ControlKeyState = LeftCtrlPressed]
       [] r >= 1 /\ r <= 26 /\ r \notin {8, 9, 13}
            -> [evt EXCEPT !.VirtualKeyCode = Uint16(VK_A + (r - 1)),
                           !.ControlKeyState = LeftCtrlPressed]
       [] OTHER -> ZeroEvent

(***************************************************************************)
(* Reader.ReadEvent: what one pass of the for loop decides from the        *)
(* buffer.  A decision is an event with the byte count it consumes and the *)
(* path that made it, or a suspension: "wait" is the waitForMore select,   *)
(* "block" the select at the bottom of the loop.                           *)
(***************************************************************************)
Emit(ev, n, path) == [kind |-> "event", event |-> ev, consumed |-> n, path |-> path]
Suspend(kind) == [kind |-> kind, event |-> ZeroEvent, consumed |-> 0, path |-> kind]

\* the Esc key event of the double-ESC and timeout returns
EscEvent ==
  [ZeroEvent EXCEPT !.Type = KeyEventType, !.VirtualKeyCode = VK_ESCAPE,
                    !.KeyDown = TRUE]

\* the event of the legacy Alt return
AltEvent(character) ==
  [ZeroEvent EXCEPT !.Type = KeyEventType, !.Char = character,
                    !.ControlKeyState = LeftAltPressed, !.KeyDown = TRUE,
                    !.IsLegacy = TRUE]

\* variant: the legacy Alt return consumes ESC and one byte
AltConsumed_OneByte(buf) == 2

\* bytes the legacy Alt return consumes: ESC and the scalar after it
AltConsumed(buf) == 1 + DecodeRune(SliceFrom(buf, 1)).size

\* steps 3 and 4 of the ESC branch, then waitForMore
EscFallback(buf) ==
  IF Len(buf) >= 2 /\ buf[2] = ESC THEN Emit(EscEvent, 2, "doubleEsc")
  ELSE IF Len(buf) >= 2 /\ FullRune(SliceFrom(buf, 1))
    THEN Emit(AltEvent(DecodeRune(SliceFrom(buf, 1)).r), AltConsumed(buf), "alt")
  ELSE Suspend("wait")

\* a parser's result with the path that called it
Tagged(r, path) ==
  [event |-> r.event, consumed |-> r.consumed, err |-> r.err, path |-> path]

\* variant: ParseLegacyCSI first, and ParseKitty when it returned
\* ErrInvalidSequence
KittyThenLegacy_LegacyFirst(buf, kitty) ==
  IF ParseLegacyCSI(buf).err = ErrInvalidSequence THEN Tagged(kitty, "kitty")
  ELSE Tagged(ParseLegacyCSI(buf), "legacyCSI")

\* the default arm of the terminator switch: ParseKitty, and ParseLegacyCSI
\* when it returned ErrInvalidSequence
KittyThenLegacy(buf, kitty) ==
  IF kitty.err = ErrInvalidSequence THEN Tagged(ParseLegacyCSI(buf), "legacyCSI")
  ELSE Tagged(kitty, "kitty")

\* variant: a final I or O is a focus report whatever the parameters
CSIDispatch_FocusAnyParams(buf, terminatorIdx, command) ==
  IF command = 73
    THEN Tagged(Ok([ZeroEvent EXCEPT !.Type = FocusEventType, !.SetFocus = TRUE], 3),
                "focus")
  ELSE IF command = 79
    THEN Tagged(Ok([ZeroEvent EXCEPT !.Type = FocusEventType], 3), "focus")
  ELSE IF command = 126 /\ Slice(buf, 2, terminatorIdx) = <<50, 48, 48>>
    THEN Tagged(Ok([ZeroEvent EXCEPT !.Type = PasteEventType, !.PasteStart = TRUE],
                   terminatorIdx + 1), "paste")
  ELSE IF command = 126 /\ Slice(buf, 2, terminatorIdx) = <<50, 48, 49>>
    THEN Tagged(Ok([ZeroEvent EXCEPT !.Type = PasteEventType], terminatorIdx + 1),
                "paste")
  ELSE IF command = 95 THEN Tagged(ParseWin32InputEvent(buf), "win32")
  ELSE IF command = 77 \/ command = 109 THEN Tagged(ParseMouseSGR(buf), "mouse")
  ELSE KittyThenLegacy(buf, ParseKitty(buf))

\* step 2 of the ESC branch: the dispatch on a framed CSI sequence;
\* [event, consumed, err, path]
CSIDispatch(buf, terminatorIdx, command) ==
  IF command = 73 /\ terminatorIdx = 2
    THEN Tagged(Ok([ZeroEvent EXCEPT !.Type = FocusEventType, !.SetFocus = TRUE], 3),
                "focus")
  ELSE IF command = 79 /\ terminatorIdx = 2
    THEN Tagged(Ok([ZeroEvent EXCEPT !.Type = FocusEventType], 3), "focus")
  ELSE IF command = 126 /\ Slice(buf, 2, terminatorIdx) = <<50, 48, 48>>
    THEN Tagged(Ok([ZeroEvent EXCEPT !.Type = PasteEventType, !.PasteStart = TRUE],
                   terminatorIdx + 1), "paste")
  ELSE IF command = 126 /\ Slice(buf, 2, terminatorIdx) = <<50, 48, 49>>
    THEN Tagged(Ok([ZeroEvent EXCEPT !.Type = PasteEventType], terminatorIdx + 1),
                "paste")
  ELSE IF command = 95 THEN Tagged(ParseWin32InputEvent(buf), "win32")
  ELSE IF command = 77 \/ command = 109 THEN Tagged(ParseMouseSGR(buf), "mouse")
  ELSE KittyThenLegacy(buf, ParseKitty(buf))

\* after the dispatch returned d: return its event, or fall through
AfterDispatch(buf, d) ==
  IF d.err = NoErr /\ d.event.Type # 0 THEN Emit(d.event, d.consumed, d.path)
  ELSE EscFallback(buf)

\* variant: every error of scanCSI goes to waitForMore
AfterScan_InvalidWaits(buf, csi) ==
  IF csi.err = NoErr
    THEN AfterDispatch(buf, CSIDispatch(buf, csi.terminatorIdx, csi.command))
  ELSE Suspend("wait")

\* step 2 of the ESC branch, after scanCSI returned csi
AfterScan(buf, csi) ==
  IF csi.err = NoErr
    THEN AfterDispatch(buf, CSIDispatch(buf, csi.terminatorIdx, csi.command))
  ELSE IF csi.err = ErrIncomplete THEN Suspend("wait")
  ELSE EscFallback(buf)

\* variant: an incomplete SS3 sequence falls through to the CSI step
AfterSS3_IncompleteFallsThrough(buf, ss3) ==
  IF ss3.err = NoErr THEN Emit(ss3.event, ss3.consumed, "ss3")
  ELSE AfterScan(buf, scanCSI(buf))

\* step 1 of the ESC branch, after ParseLegacySS3 returned ss3
AfterSS3(buf, ss3) ==
  IF ss3.err = NoErr THEN Emit(ss3.event, ss3.consumed, "ss3")
  ELSE IF ss3.err = ErrIncomplete THEN Suspend("wait")
  ELSE AfterScan(buf, scanCSI(buf))

\* the ESC branch
DecideEsc(buf) == AfterSS3(buf, ParseLegacySS3(buf))

\* the bare UTF-8 return, or the C0 translator's event c0 when it is not nil
PlainEvent(d, c0) ==
  IF c0.Type # 0 THEN Emit(c0, d.size, "c0")
  ELSE Emit([ZeroEvent EXCEPT !.Type = KeyEventType, !.Char = d.r,
                              !.KeyDown = TRUE, !.IsLegacy = TRUE],
            d.size, "utf8")

\* the scalar decoded at the head of the buffer, handed to the C0 translator
PlainRune(d) == PlainEvent(d, translateLegacyByte(d.r))

\* step 6: a head byte other than ESC
DecidePlain(buf) ==
  IF buf[1] = 127
    THEN Emit([ZeroEvent EXCEPT !.Type = KeyEventType, !.VirtualKeyCode = VK_BACK,
                                !.KeyDown = TRUE, !.IsLegacy = TRUE], 1, "del")
  ELSE IF FullRune(buf) THEN PlainRune(DecodeRune(buf))
  ELSE Suspend("block")

Decide(buf) ==
  IF buf = <<>> THEN Suspend("block")
  ELSE IF buf[1] = ESC THEN DecideEsc(buf)
  ELSE DecidePlain(buf)

\* variant: the byte is put in front of the buffer
AppendByte_Front(buf, b) == <<b>> \o buf

\* r.buf = append(r.buf, b)
AppendByte(buf, b) == Append(buf, b)

\* variant: the timeout return drops the ESC and the byte after it
TimeoutRest_DropTwo(buf) == SliceFrom(buf, 2)

\* variant: the timeout return drops the whole buffer
TimeoutRest_DropAll(buf) == <<>>

\* r.buf = r.buf[1:] of the timeout return
TimeoutRest(buf) == Tail(buf)

\* variant: an event's return drops the whole buffer
AfterEvent_DropAll(buf, consumed) == <<>>

\* r.buf = r.buf[consumed:] of an event's return
AfterEvent(buf, consumed) == SliceFrom(buf, consumed)

\* the drain loop after the error signal: every queued byte, in order
DrainInto(buf, queue) == buf \o queue

\* variant: the error is returned whatever the buffer holds
ErrReturns_Always(buf) == TRUE

\* whether the error is returned once the queue is drained
ErrReturns(buf) == Len(buf) = 0

(***************************************************************************)
(* The byte streams the source delivers: concatenations of at most         *)
(* MaxFrags fragments (complete sequences of every dialect, incomplete     *)
(* prefixes, plain bytes).                                                 *)
(***************************************************************************)
Fragments ==
  << <<27>>,                                   \* lone ESC
     <<27, 79, 80>>,                           \* ESC O P      SS3 F1
     <<27, 79>>,                               \* ESC O        incomplete SS3
     <<27, 91, 90>>,                           \* ESC [ Z      legacy CSI Shift+Tab
     <<27, 91, 65>>,                           \* ESC [ A
     <<27, 91, 73>>,                           \* ESC [ I      focus in
     <<27, 91, 50, 48, 49, 126>>,              \* ESC [ 201 ~  paste end
     <<27, 91, 59, 59, 59, 49, 95>>,           \* ESC [ ;;;1 _ Win32
     <<27, 91, 60, 48, 59, 49, 59, 50, 77>>,   \* ESC [ <0;1;2 M  SGR mouse
     <<27, 91, 57, 55, 117>>,                  \* ESC [ 97 u   Kitty
     <<27, 91, 49, 59>>,                       \* ESC [ 1 ;    incomplete CSI
     <<27, 91, 7>>,                            \* ESC [ BEL    invalid CSI
     <<27, 91, 77>>,                           \* ESC [ M      rejected by the mouse parser
     <<27, 27>>,                               \* ESC ESC
     <<27, 208, 176>>,                         \* ESC D0 B0    Alt + U+0430
     <<127>>,                                  \* DEL
     <<3>>,                                    \* Ctrl+C
     <<97>>,                                   \* a
     <<208, 176>>,                             \* U+0430
     <<208>> >>                                \* incomplete UTF-8

RECURSIVE Concat(_)
\* the fragments numbered by the sequence idx, concatenated
Concat(idx) ==
  IF idx = <<>> THEN <<>> ELSE Fragments[Head(idx)] \o Concat(Tail(idx))

Streams ==
  UNION { { Concat(idx) : idx \in [1..k -> 1..Len(Fragments)] } : k \in 0..MaxFrags }

\* the errors a source ends with
SourceErrors == {"EOF", "EIO"}

(***************************************************************************)
(* The terminal helper: EnableProtocols and the restore function it        *)
(* returns.  Strings are byte sequences.                                   *)
(***************************************************************************)
\* "\x1b[?9001h" and "\x1b[?9001l"
seqEnableWin32 == <<27, 91, 63, 57, 48, 48, 49, 104>>
seqDisableWin32 == <<27, 91, 63, 57, 48, 48, 49, 108>>

\* "\x1b[>15u" and "\x1b[<1u"
seqEnableKitty == <<27, 91, 62, 49, 53, 117>>
seqDisableKitty == <<27, 91, 60, 49, 117>>

\* "\x1b[?1003h\x1b[?1006h" and "\x1b[?1006l\x1b[?1003l"
seqEnableMouse == <<27, 91, 63, 49, 48, 48, 51, 104, 27, 91, 63, 49, 48, 48, 54, 104>>
seqDisableMouse == <<27, 91, 63, 49, 48, 48, 54, 108, 27, 91, 63, 49, 48, 48, 51, 108>>

\* "\x1b[?1004h\x1b[?2004h" and "\x1b[?2004l\x1b[?1004l"
seqEnableExt == <<27, 91, 63, 49, 48, 48, 52, 104, 27, 91, 63, 50, 48, 48, 52, 104>>
seqDisableExt == <<27, 91, 63, 50, 48, 48, 52, 108, 27, 91, 63, 49, 48, 48, 52, 108>>

\* the Protocol flags
Win32InputMode == 1
KittyKeyboard == 2
MouseSupport == 4
FocusAndPaste == 8
DefaultProtocols == 15

\* variant: disableSeq = disableSeq + dis, the disable strings in the order
\* of the enables
PrependDisable_Append(dis, disableSeq) == disableSeq \o dis

\* disableSeq = dis + disableSeq
PrependDisable(dis, disableSeq) == dis \o disableSeq

\* one `if p&flag != 0` block: seqs is [enableSeq, disableSeq]
AddProtocol(seqs, p, flag, en, dis) ==
  IF HasBit(p, flag)
    THEN [enableSeq |-> seqs.enableSeq \o en,
          disableSeq |-> PrependDisable(dis, seqs.disableSeq)]
    ELSE seqs

\* enableSeq and disableSeq as EnableProtocols(p) builds them: Kitty, Win32,
\* mouse, focus and paste
BuildSeqs(p) ==
  AddProtocol(
    AddProtocol(
      AddProtocol(
        AddProtocol([enableSeq |-> <<>>, disableSeq |-> <<>>],
                    p, KittyKeyboard, seqEnableKitty, seqDisableKitty),
        p, Win32InputMode, seqEnableWin32, seqDisableWin32),
      p, MouseSupport, seqEnableMouse, seqDisableMouse),
    p, FocusAndPaste, seqEnableExt, seqDisableExt)

\* the attributes a terminal can have before EnableProtocols is called
PriorModes == {"cooked", "cbreak"}

\* errors of term.MakeRaw and of os.Stdout.WriteString
ErrMakeRaw == "ErrMakeRaw"
ErrWrite == "ErrWrite"

\* the terminal and the helper's caller before EnableProtocols is called
TermStart(mode) ==
  [pc |-> "start", p |-> 0, prior |-> mode, mode |-> mode, oldState |-> "none",
   out |-> <<>>, disableSeq |-> <<>>, restore |-> FALSE, err |-> NoErr]

\* variant: a failed write returns without term.Restore
EnableProtocols_NoRestoreOnWriteError(t, p, rawOk, writeOk, n) ==
  IF ~rawOk
    THEN [t EXCEPT !.pc = "failed", !.p = p, !.err = ErrMakeRaw]
  ELSE IF ~writeOk
    THEN [t EXCEPT !.pc = "failed", !.p = p, !.oldState = t.mode,
                   !.out = t.out \o SubSeq(BuildSeqs(p).enableSeq, 1, n),
                   !.mode = "raw", !.err = ErrWrite]
  ELSE [t EXCEPT !.pc = "enabled", !.p = p, !.oldState = t.mode,
                 !.out = t.out \o BuildSeqs(p).enableSeq, !.mode = "raw",
                 !.disableSeq = BuildSeqs(p).disableSeq, !.restore = TRUE]

\* EnableProtocols(p) on terminal t: term.MakeRaw succeeds or not (rawOk),
\* os.Stdout.WriteString(enableSeq) succeeds or fails after n bytes (writeOk)
EnableProtocols(t, p, rawOk, writeOk, n) ==
  IF ~rawOk
    THEN [t EXCEPT !.pc = "failed", !.p = p, !.err = ErrMakeRaw]
  ELSE IF ~writeOk
    THEN [t EXCEPT !.pc = "failed", !.p = p, !.oldState = t.mode,
                   !.out = t.out \o SubSeq(BuildSeqs(p).enableSeq, 1, n),
                   !.mode = t.mode, !.err = ErrWrite]
  ELSE [t EXCEPT !.pc = "enabled", !.p = p, !.oldState = t.mode,
                 !.out = t.out \o BuildSeqs(p).enableSeq, !.mode = "raw",
                 !.disableSeq = BuildSeqs(p).disableSeq, !.restore = TRUE]

\* the restore closure: os.Stdout.WriteString(disableSeq), then
\* term.Restore(fd, oldState)
Restore(t) ==
  [t EXCEPT !.pc = "restored", !.out = t.out \o t.disableSeq, !.mode = t.oldState]

(***************************************************************************)
(* State.                                                                  *)
(***************************************************************************)
VARIABLES
  stream,      \* every byte the source will deliver, in order
  srcPos,      \* bytes the source has returned from Read so far
  prodPc,      \* producer goroutine: "read", "push", "publish", "done"
  tmp,         \* producer: tmp[0:n] of the last Read
  ti,          \* producer: the loop index i into tmp
  prodErr,     \* producer: err of the last Read
  dataChan,    \* r.dataChan
  errChan,     \* r.errChan
  buf,         \* r.buf
  conPc,       \* ReadEvent caller: "idle", "wait", "block"; "gone" once it
               \* has stopped calling ReadEvent
  evlog,       \* history: the events returned, each with its path, the buffer
               \* it was decoded from, the bytes it consumed, the buffer left
  appended,    \* history: every byte appended to r.buf, in order
  ret,         \* history: what the last ReadEvent call returned
  errReturned, \* history: ReadEvent has returned the source's error
  errTaken,    \* history: the error has been received from errChan
  timeoutEarly,\* history: a timeout fired before the whole stream was appended
  expected,    \* the events of the run in which the whole stream is queued
               \* before the first ReadEvent call
  arg,         \* the byte slice handed to a parser called on its own
  given,       \* history: what that slice was written from
  res,         \* what that call returned: [fn |-> the function, out |-> its result]
  term         \* the terminal and the caller of EnableProtocols: pc is "start",
               \* "enabled", "failed" or "restored"; p the protocols asked for;
               \* prior the attributes before the call (history); mode the
               \* terminal's attributes now; oldState what MakeRaw
               \* returned; out the bytes written to stdout; disableSeq the
               \* string the restore function holds; restore whether a restore
               \* function was returned; err the error returned

vars == <<stream, srcPos, prodPc, tmp, ti, prodErr, dataChan, errChan, buf,
          conPc, evlog, appended, ret, errReturned, errTaken, timeoutEarly,
          expected, arg, res, given, term>>

prodVars == <<srcPos, prodPc, tmp, ti, prodErr>>
histVars == <<evlog, appended, ret, errReturned, errTaken, timeoutEarly>>
parseVars == <<arg, res, given>>

\* what a slice handed to a parser was written from: the bytes themselves
\* (kind "bytes"), or ESC [ lead groups final (kind "csi"), groups being the
\* ';'-separated fields, each field its ':'-separated numbers, -1 for a
\* number left out
Given(kind, bytes, lead, groups, final) ==
  [kind |-> kind, bytes |-> bytes, lead |-> lead, groups |-> groups, final |-> final]

\* no slice was handed to a parser
NoGiven == Given("none", <<>>, <<>>, <<>>, 0)

\* no parser has been called on its own
NoCall == [fn |-> "none", out |-> <<>>]

RECURSIVE RefRun(_, _), RefStep(_, _, _)
\* the events ReadEvent returns, call after call, from buffer b with queue q
\* when nothing more arrives: a byte is taken whenever the loop suspends and
\* the queue holds one, the timeout fires in waitForMore once it is empty
RefStep(b, q, d) ==
  IF d.kind = "event" THEN <<d.event>> \o RefRun(AfterEvent(b, d.consumed), q)
  ELSE IF q # <<>> THEN RefRun(AppendByte(b, Head(q)), Tail(q))
  ELSE IF d.kind = "wait" THEN <<EscEvent>> \o RefRun(TimeoutRest(b), q)
  ELSE <<>>

RefRun(b, q) == RefStep(b, q, Decide(b))

Init ==
  /\ stream \in Streams
  /\ srcPos = 0
  /\ prodPc = "read"
  /\ tmp = <<>>
  /\ ti = 0
  /\ prodErr = NoErr
  /\ dataChan = <<>>
  /\ errChan = <<>>
  /\ buf = <<>>
  /\ conPc = "idle"
  /\ evlog = <<>>
  /\ appended = <<>>
  /\ ret = [kind |-> "none", err |-> NoErr]
  /\ errReturned = FALSE
  /\ errTaken = FALSE
  /\ timeoutEarly = FALSE
  /\ expected = RefRun(<<>>, stream)
  /\ arg = <<>>
  /\ given = NoGiven
  /\ res = NoCall
  /\ term = TermStart("cooked")

(***************************************************************************)
(* Producer goroutine of NewReader.                                        *)
(***************************************************************************)
\* n, err := r.in.Read(tmp): the source returns the next n bytes; it reports
\* an error only once it has delivered its last byte, with that byte or after
ProdRead ==
  /\ prodPc = "read"
  /\ \E n \in 0..Min(MaxChunk, Len(stream) - srcPos), e \in SourceErrors \cup {NoErr} :
       /\ e # NoErr => srcPos + n = Len(stream)
       /\ tmp' = SubSeq(stream, srcPos + 1, srcPos + n)
       /\ srcPos' = srcPos + n
       /\ ti' = 0
       /\ prodErr' = e
       /\ prodPc' = IF n > 0 THEN "push"
                    ELSE IF e # NoErr THEN "publish" ELSE "read"
  /\ UNCHANGED <<parseVars, term, stream, dataChan, errChan, buf, conPc, histVars, expected>>

\* variant: a send that gives up when the channel is full
\* (select { case r.dataChan <- tmp[i]: default: })
ProdPush_DropWhenFull ==
  /\ prodPc = "push"
  /\ dataChan' = IF Len(dataChan) < DataChanCap THEN Append(dataChan, tmp[ti + 1])
                 ELSE dataChan
  /\ ti' = ti + 1
  /\ prodPc' = IF ti + 1 < Len(tmp) THEN "push"
               ELSE IF prodErr # NoErr THEN "publish" ELSE "read"
  /\ UNCHANGED <<parseVars, term, stream, srcPos, tmp, prodErr, errChan, buf, conPc, histVars,
                 expected>>

\* r.dataChan <- tmp[i]: blocks while the channel is full
ProdPush ==
  /\ prodPc = "push"
  /\ Len(dataChan) < DataChanCap
  /\ dataChan' = Append(dataChan, tmp[ti + 1])
  /\ ti' = ti + 1
  /\ prodPc' = IF ti + 1 < Len(tmp) THEN "push"
               ELSE IF prodErr # NoErr THEN "publish" ELSE "read"
  /\ UNCHANGED <<parseVars, term, stream, srcPos, tmp, prodErr, errChan, buf, conPc, histVars,
                 expected>>

\* variant: the goroutine does not return after the send and reads again
ProdPublish_NoReturn ==
  /\ prodPc = "publish"
  /\ Len(errChan) < ErrChanCap
  /\ errChan' = Append(errChan, prodErr)
  /\ prodPc' = "read"
  /\ UNCHANGED <<parseVars, term, stream, srcPos, tmp, ti, prodErr, dataChan, buf, conPc,
                 histVars, expected>>

\* r.errChan <- err; return
ProdPublish ==
  /\ prodPc = "publish"
  /\ Len(errChan) < ErrChanCap
  /\ errChan' = Append(errChan, prodErr)
  /\ prodPc' = "done"
  /\ UNCHANGED <<parseVars, term, stream, srcPos, tmp, ti, prodErr, dataChan, buf, conPc,
                 histVars, expected>>

(***************************************************************************)
(* Reader.ReadEvent, as run by its caller.  Parsing is synchronous work on *)
(* r.buf, which only the caller touches, so a pass of the for loop is part *)
(* of the step that leads to it; the caller is seen between calls ("idle") *)
(* and suspended in one of the two selects ("wait", "block").              *)
(***************************************************************************)
\* the outcome d of one pass of the for loop over buffer b: return an event,
\* or suspend in a select
Decided(b, d) ==
  IF d.kind = "event"
    THEN /\ buf' = AfterEvent(b, d.consumed)
         /\ evlog' = Append(evlog, [event |-> d.event, path |-> d.path,
                                    before |-> b, consumed |-> d.consumed,
                                    after |-> AfterEvent(b, d.consumed)])
         /\ ret' = [kind |-> "event", err |-> NoErr]
         /\ conPc' = "idle"
    ELSE /\ buf' = b
         /\ conPc' = d.kind
         /\ UNCHANGED <<evlog, ret>>

Pass(b) == Decided(b, Decide(b))

\* the caller calls ReadEvent
Call ==
  /\ conPc = "idle"
  /\ Pass(buf)
  /\ UNCHANGED <<parseVars, term, stream, prodVars, dataChan, errChan, appended, errReturned,
                 errTaken, timeoutEarly, expected>>

\* case b := <-r.dataChan of either select
RecvByte(pc) ==
  /\ conPc = pc
  /\ dataChan # <<>>
  /\ appended' = Append(appended, Head(dataChan))
  /\ dataChan' = Tail(dataChan)
  /\ Pass(AppendByte(buf, Head(dataChan)))
  /\ UNCHANGED <<parseVars, term, stream, prodVars, errChan, errReturned, errTaken,
                 timeoutEarly, expected>>

\* case err := <-r.errChan of either select: drain the queue, then return
\* the error or go round the loop
RecvErr(pc) ==
  /\ conPc = pc
  /\ errChan # <<>>
  /\ errChan' = Tail(errChan)
  /\ dataChan' = <<>>
  /\ appended' = appended \o dataChan
  /\ errTaken' = TRUE
  /\ IF ErrReturns(DrainInto(buf, dataChan))
       THEN /\ buf' = DrainInto(buf, dataChan)
            /\ ret' = [kind |-> "err", err |-> Head(errChan)]
            /\ errReturned' = TRUE
            /\ conPc' = "idle"
            /\ UNCHANGED evlog
       ELSE /\ Pass(DrainInto(buf, dataChan))
            /\ UNCHANGED errReturned
  /\ UNCHANGED <<parseVars, term, stream, prodVars, timeoutEarly, expected>>

WaitRecv == RecvByte("wait")
WaitErr == RecvErr("wait")
BlockRecv == RecvByte("block")
BlockErr == RecvErr("block")

\* case <-time.After(100 * time.Millisecond) of waitForMore: 100 ms went by
\* with nothing to receive on either channel
WaitTimeout ==
  /\ conPc = "wait"
  /\ dataChan = <<>>
  /\ errChan = <<>>
  /\ buf' = TimeoutRest(buf)
  /\ evlog' = Append(evlog, [event |-> EscEvent, path |-> "timeout",
                             before |-> buf, consumed |-> 1,
                             after |-> TimeoutRest(buf)])
  /\ ret' = [kind |-> "event", err |-> NoErr]
  /\ timeoutEarly' = (timeoutEarly \/ Len(appended) < Len(stream))
  /\ conPc' = "idle"
  /\ UNCHANGED <<parseVars, term, stream, prodVars, dataChan, errChan, appended, errReturned,
                 errTaken, expected>>

Next ==
  \/ ProdRead
  \/ ProdPush
  \/ ProdPublish
  \/ Call
  \/ WaitRecv
  \/ WaitErr
  \/ WaitTimeout
  \/ BlockRecv
  \/ BlockErr

Spec == Init /\ [][Next]_vars

(***************************************************************************)
(* The reader on one key sequence at a time.                               *)
(***************************************************************************)
RECURSIVE Dec(_)
\* the decimal digits of n, as a terminal writes a parameter
Dec(n) == IF n < 10 THEN <<48 + n>> ELSE Dec(n \div 10) \o <<48 + (n % 10)>>

\* ESC [ n ~
TildeSeq(n) == <<ESC, 91>> \o Dec(n) \o <<126>>

\* the letter terminators of the legacy CSI table: A B C D H F P Q R S
CSILetters == {65, 66, 67, 68, 72, 70, 80, 81, 82, 83}

\* ESC [ c, ESC [ 1 c and ESC [ 1 ; m c for the modifier codes 2 (Shift) and
\* 5 (Ctrl)
LetterSeqs ==
  { <<ESC, 91, c>> : c \in CSILetters }
  \cup { <<ESC, 91, 49, c>> : c \in CSILetters }
  \cup { <<ESC, 91, 49, 59, m, c>> : m \in {50, 53}, c \in CSILetters }

\* one C0 byte other than ESC, 'a', and a scalar of two, three and four
\* bytes, whole and cut short
PlainSeqs ==
  { <<b>> : b \in (0..31) \ {ESC} }
  \cup { <<97>>, <<208, 176>>, <<226, 130, 172>>, <<240, 159, 152, 128>>,
         <<226, 130>>, <<240, 159, 152>> }

\* the focus and paste frames, and frames next to them: ESC [ 1 I,
\* ESC [ 1 O, ESC [ ; I, ESC [ 2000 ~, ESC [ 0200 ~, ESC [ 200 ; 1 ~,
\* ESC [ 202 ~
FocusPasteSeqs ==
  { <<ESC, 91, 73>>, <<ESC, 91, 79>>, TildeSeq(200), TildeSeq(201),
    <<ESC, 91, 49, 73>>, <<ESC, 91, 49, 79>>, <<ESC, 91, 59, 73>>,
    TildeSeq(2000), <<ESC, 91, 48, 50, 48, 48, 126>>,
    <<ESC, 91, 50, 48, 48, 59, 49, 126>>, TildeSeq(202) }

KeySequences ==
  { TildeSeq(n) : n \in 1..MaxTilde } \cup LetterSeqs
  \cup { Fragments[i] : i \in 1..Len(Fragments) }
  \cup PlainSeqs \cup FocusPasteSeqs

InitSeq ==
  /\ stream \in KeySequences
  /\ srcPos = 0
  /\ prodPc = "read"
  /\ tmp = <<>>
  /\ ti = 0
  /\ prodErr = NoErr
  /\ dataChan = <<>>
  /\ errChan = <<>>
  /\ buf = <<>>
  /\ conPc = "idle"
  /\ evlog = <<>>
  /\ appended = <<>>
  /\ ret = [kind |-> "none", err |-> NoErr]
  /\ errReturned = FALSE
  /\ errTaken = FALSE
  /\ timeoutEarly = FALSE
  /\ expected = RefRun(<<>>, stream)
  /\ arg = <<>>
  /\ given = NoGiven
  /\ res = NoCall
  /\ term = TermStart("cooked")

SpecSeq == InitSeq /\ [][Next]_vars

(***************************************************************************)
(* The parsers called on their own, as the package's tests call them.      *)
(***************************************************************************)
\* boundary bytes of the CSI framer: ESC, '[', 0x1F, 0x20, '1', 0x3F, 0x40,
\* 0x7E, 0x7F
ScanAlphabet == {27, 91, 31, 32, 49, 63, 64, 126, 127}

ScanInputs == UNION { [1..k -> ScanAlphabet] : k \in 0..MaxSlice }

\* ESC [ < Pb ; 1 ; 2 M and ... m
MouseInputs ==
  { <<ESC, 91, 60>> \o Dec(pb) \o <<59, 49, 59, 50, t>> :
      pb \in 0..MaxPb, t \in {77, 109} }

\* ESC [ Vk ; Sc ; Uc ; Kd ; Cs ; Rc _
Win32Seq(vk, sc, uc, kd, cs, rc) ==
  <<ESC, 91>> \o vk \o <<59>> \o sc \o <<59>> \o uc \o <<59>> \o kd \o <<59>>
  \o cs \o <<59>> \o rc \o <<95>>

Win32Inputs ==
  { Win32Seq(vk, sc, Dec(0), kd, cs, rc) :
      vk \in {<<>>, Dec(17), Dec(112)}, sc \in {Dec(29), Dec(59)},
      kd \in {Dec(0), Dec(1)}, cs \in {<<>>, Dec(8)},
      rc \in {Dec(0), Dec(1), Dec(3)} }

\* bytes of the SS3 parser: ESC, 'O', 'P', 'S', 'H', 'F' and 'A'
SS3Alphabet == {27, 79, 80, 83, 72, 70, 65}

SS3Inputs ==
  UNION { [1..k -> SS3Alphabet] : k \in 0..MaxSlice }
  \cup { <<ESC, 79, c>> : c \in 64..126 }

ParseInputs == ScanInputs \cup MouseInputs \cup Win32Inputs \cup SS3Inputs

\* a number as written: nothing when it is left out
Num(v) == IF v < 0 THEN <<>> ELSE Dec(v)

RECURSIVE JoinNums(_, _)
\* the numbers of vs written with byte sep between them
JoinNums(vs, sep) ==
  IF vs = <<>> THEN <<>>
  ELSE IF Len(vs) = 1 THEN Num(vs[1])
  ELSE Num(vs[1]) \o <<sep>> \o JoinNums(Tail(vs), sep)

RECURSIVE JoinGroups(_)
\* the fields of groups written with ';' between them, ':' inside
JoinGroups(groups) ==
  IF groups = <<>> THEN <<>>
  ELSE IF Len(groups) = 1 THEN JoinNums(groups[1], 58)
  ELSE JoinNums(groups[1], 58) \o <<59>> \o JoinGroups(Tail(groups))

\* the bytes of a given slice
Render(g) ==
  IF g.kind = "csi" THEN <<ESC, 91>> \o g.lead \o JoinGroups(g.groups) \o <<g.final>>
  ELSE g.bytes

\* Vk ; Sc ; Uc ; Kd ; Cs ; Rc
Win32Fields ==
  { <<<<vk>>, <<sc>>, <<uc>>, <<kd>>, <<cs>>, <<rc>>>> :
      vk \in {-1, 65}, sc \in {-1, 30}, uc \in {-1, 97}, kd \in {-1, 0, 1, 2},
      cs \in {-1, 8}, rc \in {-1, 0, 1, 3, 65535, 65536, 65537} }

\* ESC [ fields _ with all six fields or only the first k of them, and a few
\* of these with another final byte
Win32Givens ==
  { Given("csi", <<>>, <<>>, SubSeq(f, 1, k), 95) : f \in Win32Fields, k \in 0..6 }
  \cup { Given("csi", <<>>, <<>>, SubSeq(f, 1, k), c) :
           f \in Win32Fields, k \in {0, 1}, c \in {77, 117, 126} }

\* final bytes of the legacy CSI sequences sent: A..H, P..T, Z, u
LegacyFinals == (65..72) \cup (80..84) \cup {90, 117}

\* ESC [ c, ESC [ 1 ; m c, ESC [ ; m c, ESC [ n ~ and ESC [ n ; m ~
LegacyGivens ==
  { Given("csi", <<>>, <<>>, <<>>, c) : c \in LegacyFinals }
  \cup { Given("csi", <<>>, <<>>, <<<<n>>, <<m>>>>, c) :
           n \in {-1, 1}, m \in 0..MaxMod, c \in LegacyFinals }
  \cup { Given("csi", <<>>, <<>>, <<<<n>>>>, 126) : n \in 0..MaxTilde }
  \cup { Given("csi", <<>>, <<>>, <<<<n>>, <<m>>>>, 126) :
           n \in 0..MaxTilde, m \in 0..MaxMod }

\* ESC [ < Pb ; X ; Y M and ... m, the same without '<', and with a field
\* less
MouseGivens ==
  { Given("csi", <<>>, <<60>>, <<<<pb>>, <<x>>, <<y>>>>, t) :
      pb \in 0..MaxPb, x \in {1, 300}, y \in {2, 65535}, t \in {77, 109} }
  \cup { Given("csi", <<>>, <<>>, <<<<pb>>, <<1>>, <<2>>>>, t) :
           pb \in {0, 35}, t \in {77, 109} }
  \cup { Given("csi", <<>>, <<60>>, <<<<pb>>, <<1>>>>, t) :
           pb \in {0, 35}, t \in {77, 109} }

\* key codes handed to ParseKitty: every code of its baseChar switch
\* (parser.go:347-449), letters and digits, and codes next to them that it
\* does not map (0, 1, 321, U+0444, U+20AC, 55296, 57357, 57455)
KittyBases ==
  {0, 1, 2, 3, 5, 6, 8, 9, 11, 12, 13, 14, 15, 17, 18, 19, 20, 21, 23, 24,
   27, 32, 127, 48, 57, 65, 90, 97, 122,
   96, 45, 61, 91, 93, 92, 59, 39, 44, 46, 47,
   57358, 57360, 57363, 321, 1092, 8364, 55296, 57357, 57455}
  \cup (57399..57414) \cup (57417..57427) \cup (57441..57450)

\* the first field: code; unshifted : shifted : base; code : shifted
KittyKeys ==
  { <<b>> : b \in KittyBases }
  \cup { <<u, s, b>> : u \in {0, 97}, s \in {-1, 65}, b \in {0, 65, 13, 57443} }
  \cup { <<b, c>> : b \in {97, 13, 57441, 57449},
                    c \in {0, 65, 97, 1092, 31, 127, 57400, 55296, 8364} }

\* the second field: left out, or modifiers : event type with Alt (3),
\* CapsLock (65), CapsLock+Shift (66), CapsLock+Alt (67)
KittyModFields ==
  {<<>>} \cup { <<<<m, t>>>> : m \in {-1, 3, 65, 66, 67}, t \in {-1, 1, 3} }

\* every key with the finals u, ~, A, P; two keys with every final
KittyKeyGivens ==
  { Given("csi", <<>>, <<>>, <<key>> \o mf, c) :
      key \in KittyKeys, mf \in KittyModFields, c \in {117, 126, 65, 80} }
  \cup { Given("csi", <<>>, <<>>, <<key>> \o mf, c) :
      key \in {<<1>>, <<97>>}, mf \in KittyModFields,
      c \in {117, 126, 65, 66, 67, 68, 69, 70, 72, 80, 81, 82, 83} }

\* ESC [ 97 u, ESC [ 97 ; m u and ESC [ 97 ; m : t u ('a' with modifiers m
\* and event type t); the same forms for other keys and a few modifiers;
\* ESC [ 1 ; m : t A; the keys of KittyKeyGivens
KittyGivens ==
  { Given("csi", <<>>, <<>>, <<<<97>>, <<m>>>>, 117) : m \in -1..MaxKittyMod }
  \cup { Given("csi", <<>>, <<>>, <<<<97>>, <<m, t>>>>, 117) :
           m \in -1..MaxKittyMod, t \in 1..3 }
  \cup { Given("csi", <<>>, <<>>, <<key>>, 117) :
           key \in {<<97>>, <<97, 65>>, <<1092, 1060, 97>>, <<0>>, <<57441>>, <<57448>>} }
  \cup { Given("csi", <<>>, <<>>, <<key, <<m, t>>>>, 117) :
           key \in {<<97, 65>>, <<1092, 1060, 97>>, <<0>>, <<57441>>, <<57448>>},
           m \in {-1, 0, 1, 2, 9, 65, 129}, t \in {-1, 1, 2, 3} }
  \cup { Given("csi", <<>>, <<>>, <<<<1>>, <<m, t>>>>, 65) :
           m \in {-1, 0, 1, 2, 9, 65, 129}, t \in {-1, 1, 2, 3} }
  \cup KittyKeyGivens

\* payload bytes of the Kitty parser: '1', ';', ':' and '?'
KittyAlphabet == {49, 59, 58, 63}

\* ESC [ payload final for every payload of up to MaxPayload bytes and the
\* finals u, ~, A, I, Z
KittyShapes ==
  { <<ESC, 91>> \o pl \o <<c>> :
      pl \in UNION { [1..k -> KittyAlphabet] : k \in 0..MaxPayload },
      c \in {117, 126, 65, 73, 90} }

\* the inputs given as bytes
BytesGivens ==
  { Given("bytes", b, <<>>, <<>>, 0) : b \in ParseInputs \cup KittyShapes }

\* the argument is one of the inputs given as bytes or one of the CSI forms
InitParse ==
  /\ \/ given \in BytesGivens
     \/ given \in Win32Givens
     \/ given \in LegacyGivens
     \/ given \in MouseGivens
     \/ given \in KittyGivens
  /\ arg = Render(given)
  /\ res = NoCall
  /\ term = TermStart("cooked")
  /\ stream = <<>>
  /\ srcPos = 0
  /\ prodPc = "read"
  /\ tmp = <<>>
  /\ ti = 0
  /\ prodErr = NoErr
  /\ dataChan = <<>>
  /\ errChan = <<>>
  /\ buf = <<>>
  /\ conPc = "idle"
  /\ evlog = <<>>
  /\ appended = <<>>
  /\ ret = [kind |-> "none", err |-> NoErr]
  /\ errReturned = FALSE
  /\ errTaken = FALSE
  /\ timeoutEarly = FALSE
  /\ expected = <<>>

readerVars == <<stream, prodVars, dataChan, errChan, buf, conPc, histVars, expected>>

\* scanCSI(arg)
CallScanCSI ==
  /\ res.fn = "none"
  /\ res' = [fn |-> "scanCSI", out |-> scanCSI(arg)]
  /\ UNCHANGED <<arg, given, term, readerVars>>

\* ParseMouseSGR(arg)
CallParseMouseSGR ==
  /\ res.fn = "none"
  /\ res' = [fn |-> "ParseMouseSGR", out |-> ParseMouseSGR(arg)]
  /\ UNCHANGED <<arg, given, term, readerVars>>

\* ParseWin32InputEvent(arg)
CallParseWin32InputEvent ==
  /\ res.fn = "none"
  /\ res' = [fn |-> "ParseWin32InputEvent", out |-> ParseWin32InputEvent(arg)]
  /\ UNCHANGED <<arg, given, term, readerVars>>

\* ParseLegacyCSI(arg)
CallParseLegacyCSI ==
  /\ res.fn = "none"
  /\ res' = [fn |-> "ParseLegacyCSI", out |-> ParseLegacyCSI(arg)]
  /\ UNCHANGED <<arg, given, term, readerVars>>

\* ParseLegacySS3(arg)
CallParseLegacySS3 ==
  /\ res.fn = "none"
  /\ res' = [fn |-> "ParseLegacySS3", out |-> ParseLegacySS3(arg)]
  /\ UNCHANGED <<arg, given, term, readerVars>>

\* ParseKitty(arg)
CallParseKitty ==
  /\ res.fn = "none"
  /\ res' = [fn |-> "ParseKitty", out |-> ParseKitty(arg)]
  /\ UNCHANGED <<arg, given, term, readerVars>>

\* one pass of ReadEvent's for loop with r.buf holding arg
CallDecide ==
  /\ res.fn = "none"
  /\ res' = [fn |-> "Decide", out |-> Decide(arg)]
  /\ UNCHANGED <<arg, given, term, readerVars>>

NextParse ==
  \/ CallParseKitty
  \/ CallDecide
  \/ CallScanCSI
  \/ CallParseMouseSGR
  \/ CallParseWin32InputEvent
  \/ CallParseLegacyCSI
  \/ CallParseLegacySS3

SpecParse == InitParse /\ [][NextParse]_vars

(***************************************************************************)
(* The producer goroutine when the caller has stopped calling ReadEvent.   *)
(***************************************************************************)
\* n bytes 'a'
PlainBytes(n) == [i \in 1..n |-> 97]

\* nothing, as much as r.dataChan holds, and more than it holds
AbandonStreams ==
  {PlainBytes(0), PlainBytes(DataChanCap), PlainBytes(DataChanCap + Overrun)}

InitAbandon ==
  /\ stream \in AbandonStreams
  /\ srcPos = 0
  /\ prodPc = "read"
  /\ tmp = <<>>
  /\ ti = 0
  /\ prodErr = NoErr
  /\ dataChan = <<>>
  /\ errChan = <<>>
  /\ buf = <<>>
  /\ conPc = "gone"
  /\ evlog = <<>>
  /\ appended = <<>>
  /\ ret = [kind |-> "none", err |-> NoErr]
  /\ errReturned = FALSE
  /\ errTaken = FALSE
  /\ timeoutEarly = FALSE
  /\ expected = <<>>
  /\ arg = <<>>
  /\ given = NoGiven
  /\ res = NoCall
  /\ term = TermStart("cooked")

NextAbandon ==
  \/ ProdRead
  \/ ProdPush
  \/ ProdPublish

\* the goroutine is scheduled whenever it can run, and a Read that can return
\* something does: the source ends with an error
SpecAbandon == InitAbandon /\ [][NextAbandon]_vars /\ WF_vars(NextAbandon)

(***************************************************************************)
(* The producer ahead of a caller that makes a few calls: the queue fills. *)
(***************************************************************************)
\* n bytes 'b', 'c', ..., 'z', 'a', 'b', ...: neighbours differ
CountedBytes(n) == [i \in 1..n |-> 97 + (i % 26)]

\* more bytes than r.dataChan holds
FullStreams == {CountedBytes(DataChanCap + Overrun)}

InitFull ==
  /\ stream \in FullStreams
  /\ srcPos = 0
  /\ prodPc = "read"
  /\ tmp = <<>>
  /\ ti = 0
  /\ prodErr = NoErr
  /\ dataChan = <<>>
  /\ errChan = <<>>
  /\ buf = <<>>
  /\ conPc = "idle"
  /\ evlog = <<>>
  /\ appended = <<>>
  /\ ret = [kind |-> "none", err |-> NoErr]
  /\ errReturned = FALSE
  /\ errTaken = FALSE
  /\ timeoutEarly = FALSE
  /\ expected = <<>>
  /\ arg = <<>>
  /\ given = NoGiven
  /\ res = NoCall
  /\ term = TermStart("cooked")

\* the caller calls ReadEvent, MaxCalls times at most
CallFew ==
  /\ Len(evlog) < MaxCalls
  /\ Call

NextFull ==
  \/ ProdRead
  \/ ProdPush
  \/ ProdPublish
  \/ CallFew
  \/ BlockRecv
  \/ BlockErr

SpecFull == InitFull /\ [][NextFull]_vars

(***************************************************************************)
(* The terminal helper called on its own.                                  *)
(***************************************************************************)
InitTerm ==
  /\ term \in { TermStart(m) : m \in PriorModes }
  /\ arg = <<>>
  /\ given = NoGiven
  /\ res = NoCall
  /\ stream = <<>>
  /\ srcPos = 0
  /\ prodPc = "read"
  /\ tmp = <<>>
  /\ ti = 0
  /\ prodErr = NoErr
  /\ dataChan = <<>>
  /\ errChan = <<>>
  /\ buf = <<>>
  /\ conPc = "idle"
  /\ evlog = <<>>
  /\ appended = <<>>
  /\ ret = [kind |-> "none", err |-> NoErr]
  /\ errReturned = FALSE
  /\ errTaken = FALSE
  /\ timeoutEarly = FALSE
  /\ expected = <<>>

\* restore, err := EnableProtocols(p)
CallEnableProtocols ==
  /\ term.pc = "start"
  /\ \E p \in 0..DefaultProtocols, rawOk \in BOOLEAN, writeOk \in BOOLEAN :
       \E n \in 0..Len(BuildSeqs(p).enableSeq) :
         term' = EnableProtocols(term, p, rawOk, writeOk, n)
  /\ UNCHANGED <<parseVars, readerVars>>

\* restore()
CallRestore ==
  /\ term.pc = "enabled"
  /\ term' = Restore(term)
  /\ UNCHANGED <<parseVars, readerVars>>

NextTerm ==
  \/ CallEnableProtocols
  \/ CallRestore

SpecTerm == InitTerm /\ [][NextTerm]_vars

(***************************************************************************)
(* Properties.                                                             *)
(***************************************************************************)
\* bytes the producer has pushed onto r.dataChan
Pushed == srcPos - (Len(tmp) - ti)

RECURSIVE ConsumedCount(_, _)
\* bytes consumed by the first k returned events
ConsumedCount(log, k) ==
  IF k = 0 THEN 0 ELSE ConsumedCount(log, k - 1) + log[k].consumed

RECURSIVE ConsumedBytes(_)
\* the bytes consumed by the returned events, in order of return
ConsumedBytes(log) ==
  IF log = <<>> THEN <<>>
  ELSE SubSeq(Head(log).before, 1, Head(log).consumed) \o ConsumedBytes(Tail(log))

\* the events returned so far
Events == [i \in 1..Len(evlog) |-> evlog[i].event]

IsPrefix(a, b) == Len(a) <= Len(b) /\ a = SubSeq(b, 1, Len(a))

\* C1. No byte loss: at every point the bytes consumed by the returned
\* events, the bytes in the buffer and the bytes in the queue add up to the
\* bytes the producer has delivered, and every returned event removed a
\* prefix of the buffer and left the rest unchanged and in order.
C1_NoByteLoss ==
  /\ ConsumedCount(evlog, Len(evlog)) + Len(buf) + Len(dataChan) = Pushed
  /\ \A i \in 1..Len(evlog) :
       /\ evlog[i].consumed \in 1..Len(evlog[i].before)
       /\ evlog[i].after =
            SubSeq(evlog[i].before, evlog[i].consumed + 1, Len(evlog[i].before))

\* an event was returned by the timeout from a longer buffer while bytes
\* were buffered and queued
C1_Witness ==
  /\ \E i \in 1..Len(evlog) : evlog[i].path = "timeout" /\ Len(evlog[i].before) > 1
  /\ Len(evlog) >= 2
  /\ buf # <<>>
  /\ dataChan # <<>>

\* C2. Once the source has ended, a ReadEvent call that has turned every
\* delivered byte into events and waits in the blocking select still has
\* the source's error to receive (it has not been returned yet).
C2_ErrorStillToCome ==
  (prodPc = "done" /\ conPc = "block" /\ buf = <<>> /\ dataChan = <<>>
   /\ ~errReturned) => errChan # <<>>

\* C3. ReadEvent returns the source's error only with the queue and the
\* buffer empty: every byte pushed before the signal was consumed by an
\* event first.
C3_ErrAfterDrain ==
  ret.kind = "err" =>
    /\ buf = <<>>
    /\ dataChan = <<>>
    /\ ConsumedCount(evlog, Len(evlog)) = Len(stream)

\* the error was returned after events had consumed the stream
C3_Witness ==
  /\ ret.kind = "err"
  /\ ret.err = "EIO"
  /\ Len(evlog) >= 2
  /\ Len(stream) >= 4

\* C4. Under every interleaving the buffer receives the source's bytes in
\* source order, and the returned events cover consecutive, non-overlapping
\* ranges of the stream in increasing position.
C4_OrderedRanges ==
  /\ appended = SubSeq(stream, 1, Len(appended))
  /\ ConsumedBytes(evlog) \o buf \o dataChan = SubSeq(stream, 1, Pushed)
  /\ \A i \in 1..Len(evlog) :
       SubSeq(evlog[i].before, 1, evlog[i].consumed) =
         SubSeq(stream, ConsumedCount(evlog, i - 1) + 1, ConsumedCount(evlog, i))

\* three events returned while bytes are buffered, queued and still unread
C4_Witness ==
  /\ Len(evlog) >= 3
  /\ buf # <<>>
  /\ dataChan # <<>>
  /\ srcPos < Len(stream)

\* C5 as stated. Prefix stability: the events returned so far are a prefix
\* of the events returned once the whole stream has arrived.
C5_PrefixStable == IsPrefix(Events, expected)

\* C5 as amended: prefix stability as long as no timeout fired before the
\* whole stream had arrived.
C5_PrefixStableNoEarlyTimeout == ~timeoutEarly => IsPrefix(Events, expected)

\* two events returned while only part of the stream has arrived
C5_Witness ==
  /\ ~timeoutEarly
  /\ Len(evlog) >= 2
  /\ Len(appended) < Len(stream)
  /\ Len(expected) > Len(evlog)

\* the buffers the claim calls strict prefixes of a well-formed sequence
IncompleteUtf8(b) ==
  /\ b # <<>>
  /\ b[1] >= 194 /\ b[1] <= 244
  /\ Len(b) < Utf8Need(b[1])
  /\ Len(b) >= 2 => (b[2] >= Utf8Lo(b[1]) /\ b[2] <= Utf8Hi(b[1]))
  /\ Len(b) >= 3 => IsCont(b[3])

StrictPrefix(b) ==
  \/ b = <<ESC>>
  \/ b = <<ESC, 79>>
  \/ Len(b) >= 2 /\ b[1] = ESC /\ b[2] = 91
       /\ \A i \in 3..Len(b) : b[i] >= 32 /\ b[i] <= 63
  \/ IncompleteUtf8(b)

IsEscKeyDown(e) ==
  /\ e.Type = KeyEventType
  /\ e.VirtualKeyCode = VK_ESCAPE
  /\ e.KeyDown
  /\ e.Char = 0
  /\ e.ControlKeyState = 0

C7_LoneEscTimeout ==
  \A i \in 1..Len(evlog) :
    (evlog[i].path = "timeout" /\ evlog[i].before = <<ESC>>) =>
      /\ evlog[i].consumed = 1
      /\ evlog[i].after = <<>>
      /\ IsEscKeyDown(evlog[i].event)
      /\ evlog[i].event.IsLegacy

\* C8. Double ESC: a buffer that starts with ESC ESC yields one key-down Esc
\* event with is_legacy = true and loses both ESC bytes.
C8_DoubleEsc ==
  \A i \in 1..Len(evlog) :
    (Len(evlog[i].before) >= 2 /\ evlog[i].before[1] = ESC
     /\ evlog[i].before[2] = ESC) =>
      /\ evlog[i].consumed = 2
      /\ IsEscKeyDown(evlog[i].event)
      /\ evlog[i].event.IsLegacy

\* a complete, valid UTF-8 scalar at the head of p, by the encoding's rules
ScalarLen(p) ==
  IF p = <<>> THEN 0
  ELSE IF p[1] < 128 THEN 1
  ELSE IF p[1] >= 194 /\ p[1] <= 223 /\ Len(p) >= 2 /\ IsCont(p[2]) THEN 2
  ELSE IF p[1] >= 224 /\ p[1] <= 239 /\ Len(p) >= 3
          /\ p[2] >= Utf8Lo(p[1]) /\ p[2] <= Utf8Hi(p[1]) /\ IsCont(p[3]) THEN 3
  ELSE IF p[1] >= 240 /\ p[1] <= 244 /\ Len(p) >= 4
          /\ p[2] >= Utf8Lo(p[1]) /\ p[2] <= Utf8Hi(p[1]) /\ IsCont(p[3])
          /\ IsCont(p[4]) THEN 4
  ELSE 0

\* the scalar value of the encoding of ScalarLen(p) bytes at the head of p
ScalarOf(p) ==
  CASE ScalarLen(p) = 1 -> p[1]
    [] ScalarLen(p) = 2 -> (p[1] - 192) * 64 + (p[2] - 128)
    [] ScalarLen(p) = 3 -> (p[1] - 224) * 4096 + (p[2] - 128) * 64 + (p[3] - 128)
    [] ScalarLen(p) = 4 -> (p[1] - 240) * 262144 + (p[2] - 128) * 4096
                           + (p[3] - 128) * 64 + (p[4] - 128)
    [] OTHER -> 0

\* C9. Legacy Alt+key: a buffer of ESC and a complete UTF-8 scalar that is
\* not 'O', '[' or ESC yields one key-down Key event with char = the scalar,
\* control_key_state = LeftAlt exactly and is_legacy = true, and loses ESC
\* and every byte of the scalar.
C9_AltKey ==
  \A i \in 1..Len(evlog) :
    (/\ Len(evlog[i].before) >= 2
     /\ evlog[i].before[1] = ESC
     /\ evlog[i].before[2] \notin {79, 91, ESC}
     /\ ScalarLen(Tail(evlog[i].before)) > 0) =>
      /\ evlog[i].consumed = 1 + ScalarLen(Tail(evlog[i].before))
      /\ evlog[i].event =
           [ZeroEvent EXCEPT !.Type = KeyEventType,
                             !.Char = ScalarOf(Tail(evlog[i].before)),
                             !.ControlKeyState = LeftAltPressed,
                             !.KeyDown = TRUE,
                             !.IsLegacy = TRUE]

\* ESC D0 B0 was returned as Alt + U+0430
C9_Witness ==
  \E i \in 1..Len(evlog) :
    /\ evlog[i].before = <<ESC, 208, 176>>
    /\ evlog[i].path = "alt"
    /\ evlog[i].event.Char = 1072
    /\ evlog[i].after = <<>>

\* C10. Legacy flag: events of the Win32 and Kitty parsers and of the focus,
\* paste and SGR mouse paths have is_legacy = false; events of the legacy
\* CSI and SS3 parsers, the C0 translator, bare UTF-8, the 0x7F path, the
\* double-ESC and Alt+key fallbacks and the lone-ESC timeout have
\* is_legacy = true.
C10_LegacyFlag ==
  \A i \in 1..Len(evlog) :
    /\ evlog[i].path \in {"win32", "kitty", "focus", "paste", "mouse"}
         => ~evlog[i].event.IsLegacy
    /\ evlog[i].path \in {"legacyCSI", "ss3", "c0", "utf8", "del", "doubleEsc",
                          "alt", "timeout"}
         => evlog[i].event.IsLegacy

\* C11. Repeat default: every Key event returned by ReadEvent has
\* repeat_count >= 1, whatever path produced it.
C11_RepeatCount ==
  \A i \in 1..Len(evlog) :
    evlog[i].event.Type = KeyEventType => evlog[i].event.RepeatCount >= 1

\* C12. Every Key event returned by ReadEvent has a nonzero
\* virtual_key_code or a nonzero char.
C12_VkOrChar ==
  \A i \in 1..Len(evlog) :
    evlog[i].event.Type = KeyEventType =>
      (evlog[i].event.VirtualKeyCode # 0 \/ evlog[i].event.Char # 0)

SingleBit(x) == x \in {1, 2, 4, 8, 16}

\* how many of the three mouse indications an event carries
MouseIndications(e) ==
  (IF SingleBit(e.ButtonState) THEN 1 ELSE 0)
  + (IF e.WheelDirection # 0 THEN 1 ELSE 0)
  + (IF HasBit(e.MouseEventFlags, MouseMoved) THEN 1 ELSE 0)

\* C13. Every Mouse event of ParseMouseSGR has exactly one of: a single-bit
\* button_state, a nonzero wheel_direction, the Moved flag.
C13_MouseExactlyOne ==
  (res.fn = "ParseMouseSGR" /\ res.out.err = NoErr) =>
    MouseIndications(res.out.event) = 1

\* C14. No event with is_legacy = true has key_down = false: the events of
\* the legacy CSI, SS3, C0, bare UTF-8, 0x7F and Alt+key paths are presses.
C14_LegacyIsPress ==
  \A i \in 1..Len(evlog) :
    (evlog[i].event.IsLegacy
     \/ evlog[i].path \in {"legacyCSI", "ss3", "c0", "utf8", "del", "alt"})
      => evlog[i].event.KeyDown

\* legacy CSI Shift+Tab was returned as a legacy press
C14_Witness ==
  \E i \in 1..Len(evlog) :
    /\ evlog[i].path = "legacyCSI"
    /\ evlog[i].before = <<ESC, 91, 90>>
    /\ evlog[i].event.IsLegacy
    /\ evlog[i].event.KeyDown

\* C15. ReadEvent returns no error but the one the byte source published;
\* a parser's Incomplete only suspends the reader in wait-for-more (no event
\* is decoded from a buffer a consulted parser calls incomplete), and a
\* parser's InvalidSequence leads to the next dialect or the ESC fallbacks.
C15_OnlySourceError ==
  /\ ret.err \notin {ErrIncomplete, ErrInvalidSequence}
  /\ ret.kind = "err" =>
       (ret.err \in SourceErrors /\ ret.err = prodErr /\ prodPc = "done")
  /\ \A i \in 1..Len(evlog) :
       (evlog[i].before[1] = ESC /\ evlog[i].path # "timeout") =>
         /\ ParseLegacySS3(evlog[i].before).err # ErrIncomplete
         /\ ParseLegacySS3(evlog[i].before).err = ErrInvalidSequence
              => scanCSI(evlog[i].before).err # ErrIncomplete
         /\ (ParseLegacySS3(evlog[i].before).err = ErrInvalidSequence
             /\ scanCSI(evlog[i].before).err = ErrInvalidSequence)
              => evlog[i].path \in {"doubleEsc", "alt"}
  /\ (buf # <<>> /\ buf[1] = ESC /\ conPc # "idle") => conPc = "wait"

\* ESC [ BEL, which the framer calls invalid, was returned by the Alt
\* fallback, and the source's error was returned at the end
C15_Witness ==
  /\ ret.kind = "err"
  /\ \E i \in 1..Len(evlog) :
       evlog[i].before = <<ESC, 91, 7>> /\ evlog[i].path = "alt"

\* C16. Once the source's end has been received, ReadEvent is not left
\* waiting with the leading bytes of an incomplete UTF-8 scalar in the
\* buffer: it drops them and returns the error.
C16_MidScalarEnd ==
  (errTaken /\ conPc # "idle") => ~IncompleteUtf8(buf)

\* C17. Read through ReadEvent, ESC [ A yields Key{Up, key_down,
\* control_key_state = 0, is_legacy} and ESC [ 1 ; 5 A yields Key{Up,
\* control_key_state = LeftCtrl, is_legacy}.
C17_LegacyArrows ==
  \A i \in 1..Len(evlog) :
    /\ evlog[i].before = <<ESC, 91, 65>> =>
         /\ evlog[i].event.Type = KeyEventType
         /\ evlog[i].event.VirtualKeyCode = VK_UP
         /\ evlog[i].event.KeyDown
         /\ evlog[i].event.ControlKeyState = 0
         /\ evlog[i].event.IsLegacy
    /\ evlog[i].before = <<ESC, 91, 49, 59, 53, 65>> =>
         /\ evlog[i].event.Type = KeyEventType
         /\ evlog[i].event.VirtualKeyCode = VK_UP
         /\ evlog[i].event.ControlKeyState = LeftCtrlPressed
         /\ evlog[i].event.IsLegacy

\* the bytes 1B 5B 31 37 3B 32 39 3B 30 3B 31 3B 38 3B 31 5F
Win32Literal ==
  <<27, 91, 49, 55, 59, 50, 57, 59, 48, 59, 49, 59, 56, 59, 49, 95>>

\* C18 as stated. The bytes of Win32Literal decode to Key{VK = 0x70 (F1),
\* scan = 0x3B, key_down, LeftCtrl, repeat_count = 1, not legacy}.
C18_LiteralIsF1 ==
  (res.fn = "ParseWin32InputEvent" /\ arg = Win32Literal) =>
    /\ res.out.err = NoErr
    /\ res.out.event =
         [ZeroEvent EXCEPT !.Type = KeyEventType, !.VirtualKeyCode = 112,
                           !.VirtualScanCode = 59, !.KeyDown = TRUE,
                           !.ControlKeyState = LeftCtrlPressed,
                           !.RepeatCount = 1]

\* C18 as amended. The bytes of Win32Literal (17;29;0;1;8;1) decode to
\* Key{VK = 0x11, scan = 0x1D, key_down, LeftCtrl, repeat_count = 1, not
\* legacy}; the F1 event is what ESC [ 112;59;0;1;8;1 _ decodes to.
C18_LiteralDecodes ==
  /\ (res.fn = "ParseWin32InputEvent" /\ arg = Win32Literal) =>
       /\ res.out.err = NoErr
       /\ res.out.consumed = 16
       /\ res.out.event =
            [ZeroEvent EXCEPT !.Type = KeyEventType, !.VirtualKeyCode = 17,
                              !.VirtualScanCode = 29, !.KeyDown = TRUE,
                              !.ControlKeyState = LeftCtrlPressed,
                              !.RepeatCount = 1]
  /\ (res.fn = "ParseWin32InputEvent"
      /\ arg = Win32Seq(Dec(112), Dec(59), Dec(0), Dec(1), Dec(8), Dec(1))) =>
       /\ res.out.err = NoErr
       /\ res.out.consumed = 17
       /\ res.out.event =
            [ZeroEvent EXCEPT !.Type = KeyEventType, !.VirtualKeyCode = 112,
                              !.VirtualScanCode = 59, !.KeyDown = TRUE,
                              !.ControlKeyState = LeftCtrlPressed,
                              !.RepeatCount = 1]

\* the literal bytes were decoded
C18_Witness ==
  /\ res.fn = "ParseWin32InputEvent"
  /\ arg = Win32Literal
  /\ res.out.err = NoErr
  /\ res.out.event.KeyDown

\* the legacy tilde table as the claim lists it (0: not in the table)
TildeTableVK(n) ==
  CASE n \in {1, 7} -> VK_HOME
    [] n = 2 -> VK_INSERT
    [] n = 3 -> VK_DELETE
    [] n \in {4, 8} -> VK_END
    [] n = 5 -> VK_PRIOR
    [] n = 6 -> VK_NEXT
    [] n \in 11..15 -> VK_F1 + (n - 11)
    [] n \in 17..21 -> VK_F6 + (n - 17)
    [] n \in {23, 24} -> VK_F11 + (n - 23)
    [] OTHER -> 0

\* C19. For every code n of the legacy tilde table, ReadEvent on ESC [ n ~
\* returns a Key event whose VK is the table's VK for n.
C19_TildeTable ==
  \A i \in 1..Len(evlog) : \A n \in 1..MaxTilde :
    (evlog[i].before = TildeSeq(n) /\ TildeTableVK(n) # 0) =>
      /\ evlog[i].event.Type = KeyEventType
      /\ evlog[i].event.VirtualKeyCode = TildeTableVK(n)

\* Go index of the first byte at index >= 2 outside 0x20..0x3F; the length
\* when there is none
FirstNonParam(data) ==
  LET S == { i \in 2..(Len(data) - 1) : data[i + 1] < 32 \/ data[i + 1] > 63 }
  IN IF S = {} THEN Len(data) ELSE CHOOSE i \in S : \A j \in S : i <= j

\* C20. CSI framer: scanCSI returns Incomplete for fewer than 2 bytes,
\* InvalidSequence when the first two bytes are not 1B 5B, otherwise the
\* index and value of the first byte in 0x40..0x7E when every byte from
\* index 2 before it lies in 0x20..0x3F, InvalidSequence when a byte outside
\* 0x20..0x7E comes first, Incomplete when the slice ends first.
C20_ScanCSI ==
  res.fn = "scanCSI" =>
    res.out =
      IF Len(arg) < 2
        THEN [terminatorIdx |-> 0, command |-> 0, err |-> ErrIncomplete]
      ELSE IF arg[1] # 27 \/ arg[2] # 91
        THEN [terminatorIdx |-> 0, command |-> 0, err |-> ErrInvalidSequence]
      ELSE IF FirstNonParam(arg) = Len(arg)
        THEN [terminatorIdx |-> 0, command |-> 0, err |-> ErrIncomplete]
      ELSE IF arg[FirstNonParam(arg) + 1] >= 64 /\ arg[FirstNonParam(arg) + 1] <= 126
        THEN [terminatorIdx |-> FirstNonParam(arg),
              command |-> arg[FirstNonParam(arg) + 1], err |-> NoErr]
      ELSE [terminatorIdx |-> 0, command |-> 0, err |-> ErrInvalidSequence]

\* a terminator was found behind a parameter byte
C20_Witness ==
  /\ res.fn = "scanCSI"
  /\ arg = <<27, 91, 49, 126>>
  /\ res.out.err = NoErr
  /\ res.out.terminatorIdx = 3
  /\ res.out.command = 126


\* ESC [ ? n c: a private mode set ('h') or reset ('l')
PrivateMode(n, c) == <<27, 91, 63>> \o Dec(n) \o <<c>>

\* the protocols in the order EnableProtocols turns them on
ProtocolOrder == <<KittyKeyboard, Win32InputMode, MouseSupport, FocusAndPaste>>

\* the enable string of one protocol
EnableString(flag) ==
  CASE flag = KittyKeyboard -> <<27, 91, 62>> \o Dec(15) \o <<117>>
    [] flag = Win32InputMode -> PrivateMode(9001, 104)
    [] flag = MouseSupport -> PrivateMode(1003, 104) \o PrivateMode(1006, 104)
    [] flag = FocusAndPaste -> PrivateMode(1004, 104) \o PrivateMode(2004, 104)

\* the disable string of one protocol: its pair in reverse
DisableString(flag) ==
  CASE flag = KittyKeyboard -> <<27, 91, 60>> \o Dec(1) \o <<117>>
    [] flag = Win32InputMode -> PrivateMode(9001, 108)
    [] flag = MouseSupport -> PrivateMode(1006, 108) \o PrivateMode(1003, 108)
    [] flag = FocusAndPaste -> PrivateMode(2004, 108) \o PrivateMode(1004, 108)

\* protocol flag is selected in p
Selected(p, flag) == (p \div flag) % 2 = 1

RECURSIVE EnablesFrom(_, _), DisablesFrom(_, _)
\* the enable strings of the selected protocols, from the i-th on
EnablesFrom(p, i) ==
  IF i > Len(ProtocolOrder) THEN <<>>
  ELSE (IF Selected(p, ProtocolOrder[i]) THEN EnableString(ProtocolOrder[i]) ELSE <<>>)
       \o EnablesFrom(p, i + 1)

\* the disable strings of the selected protocols, from the i-th down
DisablesFrom(p, i) ==
  IF i < 1 THEN <<>>
  ELSE (IF Selected(p, ProtocolOrder[i]) THEN DisableString(ProtocolOrder[i]) ELSE <<>>)
       \o DisablesFrom(p, i - 1)

\* C30: once EnableProtocols(p) has succeeded, stdout holds the enable strings
\* of exactly the protocols selected in p and the terminal is raw; once the
\* restore function has run, stdout holds after them the disable strings of
\* the same protocols in the reverse order of the enables, each pair reversed
\* internally, and the terminal has the attributes it had before the call
C30_EnableRestore ==
  /\ term.pc = "enabled" =>
       /\ term.out = EnablesFrom(term.p, 1)
       /\ term.mode = "raw"
  /\ term.pc = "restored" =>
       /\ term.out = EnablesFrom(term.p, 1) \o DisablesFrom(term.p, Len(ProtocolOrder))
       /\ term.mode = term.prior

\* all four protocols were enabled and the restore function has run
C30_Witness == term.pc = "restored" /\ term.p = DefaultProtocols


\* C29: once the byte source is closed the producer goroutine publishes the
\* error and exits, also when the caller has stopped calling ReadEvent
C29_ProducerExits == <>(prodPc = "done")

\* the state the producer cannot leave: it is at r.dataChan <- tmp[i], the
\* channel is full and nobody receives
C29_Stuck == prodPc = "push" /\ Len(dataChan) = DataChanCap /\ conPc = "gone"


\* the i-th field of a given sequence as a number: 0 when it is missing or
\* left empty
FieldOr0(g, i) ==
  IF i <= Len(g.groups) /\ g.groups[i][1] >= 0 THEN g.groups[i][1] ELSE 0

\* ESC [ fields final with every field a single number
PlainFields(g) ==
  /\ g.kind = "csi"
  /\ g.lead = <<>>
  /\ \A i \in 1..Len(g.groups) : Len(g.groups[i]) = 1

\* the Key event the Win32 fields of g stand for
Win32Expected(g) ==
  [ZeroEvent EXCEPT !.Type = KeyEventType,
                    !.VirtualKeyCode = FieldOr0(g, 1),
                    !.VirtualScanCode = FieldOr0(g, 2),
                    !.Char = FieldOr0(g, 3),
                    !.KeyDown = (FieldOr0(g, 4) = 1),
                    !.ControlKeyState = FieldOr0(g, 5),
                    !.RepeatCount = IF FieldOr0(g, 6) = 0 THEN 1 ELSE FieldOr0(g, 6)]

\* C21. For every framed ESC [ Vk;Sc;Uc;Kd;Cs;Rc _ ParseWin32InputEvent
\* returns a Key event, not legacy, whose VK, scan code, char and
\* control_key_state are the fields (0 for a missing or empty one), key_down
\* iff Kd = 1, repeat_count = Rc or 1 when Rc is missing or zero, consuming
\* up to and including '_'; InvalidSequence for another final byte; the
\* framer's error otherwise.
C21_Win32Fields ==
  res.fn = "ParseWin32InputEvent" =>
    /\ (PlainFields(given) /\ given.final = 95) =>
         res.out = Ok(Win32Expected(given), Len(arg))
    /\ (PlainFields(given) /\ given.final # 95) =>
         res.out = Fail(ErrInvalidSequence)
    /\ (given.kind = "bytes" /\ scanCSI(arg).err # NoErr) =>
         res.out = Fail(scanCSI(arg).err)


\* the VK of a legacy CSI letter terminator as the claim lists them (0: none)
LegacyLetterVK(c) ==
  CASE c = 65 -> VK_UP
    [] c = 66 -> VK_DOWN
    [] c = 67 -> VK_RIGHT
    [] c = 68 -> VK_LEFT
    [] c = 72 -> VK_HOME
    [] c = 70 -> VK_END
    [] c \in 80..83 -> VK_F1 + (c - 80)
    [] c = 90 -> VK_TAB
    [] OTHER -> 0

\* the second parameter of a given sequence, 1 when it is missing or empty
ModParam(g) ==
  IF Len(g.groups) >= 2 /\ g.groups[2][1] >= 0 THEN g.groups[2][1] ELSE 1

\* bit k (1, 2, 4, 8) of m - 1 is set
ModBit(m, k) == ((m - 1) \div k) % 2 = 1

\* the control_key_state of a legacy CSI sequence with modifier parameter m
\* and final byte c
LegacyExpectedMods(m, c) ==
  (IF ModBit(m, 1) \/ c = 90 THEN ShiftPressed ELSE 0)
  + (IF ModBit(m, 2) THEN LeftAltPressed ELSE 0)
  + (IF ModBit(m, 4) THEN LeftCtrlPressed ELSE 0)
  + (IF ModBit(m, 8) THEN EnhancedKey ELSE 0)

\* the VK of a given legacy CSI sequence (0: none)
LegacyExpectedVK(g) ==
  IF g.final = 126 THEN TildeTableVK(FieldOr0(g, 1)) ELSE LegacyLetterVK(g.final)

\* C22. For every framed sequence ParseLegacyCSI maps A, B, C, D to Up, Down,
\* Right, Left, H and F to Home and End, P..S to F1..F4, Z to Tab with Shift
\* forced, '~' by the tilde table; the second parameter m (default 1) is
\* decoded as the bitmask m - 1 (Shift, LeftAlt, LeftCtrl, Enhanced); the
\* event is a legacy key press consuming the whole frame; a terminator or
\* tilde code with no VK gives InvalidSequence.
C22_LegacyCSI ==
  (res.fn = "ParseLegacyCSI" /\ PlainFields(given)) =>
    IF LegacyExpectedVK(given) = 0
      THEN res.out = Fail(ErrInvalidSequence)
      ELSE /\ res.out.err = NoErr
           /\ res.out.consumed = Len(arg)
           /\ res.out.event.Type = KeyEventType
           /\ res.out.event.VirtualKeyCode = LegacyExpectedVK(given)
           /\ res.out.event.ControlKeyState =
                LegacyExpectedMods(ModParam(given), given.final)
           /\ res.out.event.KeyDown
           /\ res.out.event.IsLegacy

\* ESC [ 1 ; 6 A (Ctrl+Shift+Up) was parsed
C22_Witness ==
  /\ res.fn = "ParseLegacyCSI"
  /\ PlainFields(given)
  /\ given.final = 65
  /\ ModParam(given) = 6
  /\ res.out.err = NoErr
  /\ res.out.event.ControlKeyState = ShiftPressed + LeftCtrlPressed


\* the VK of the third byte of an SS3 sequence as the claim lists them
\* (0: none)
SS3TableVK(b) ==
  CASE b \in 80..83 -> VK_F1 + (b - 80)
    [] b = 72 -> VK_HOME
    [] b = 70 -> VK_END
    [] OTHER -> 0

\* C23. For every byte slice ParseLegacySS3 returns Incomplete when fewer
\* than 3 bytes are present and they match ESC O so far; a legacy key-down
\* Key consuming exactly 3 bytes when the slice starts 1B 4F and P, Q, R, S
\* (F1..F4) or H, F (Home, End); InvalidSequence for any other third byte
\* and for a second byte other than 'O'.
C23_SS3 ==
  res.fn = "ParseLegacySS3" =>
    /\ arg \in {<<>>, <<ESC>>, <<ESC, 79>>} => res.out = Fail(ErrIncomplete)
    /\ (Len(arg) >= 3 /\ arg[1] = ESC /\ arg[2] = 79) =>
         IF SS3TableVK(arg[3]) = 0
           THEN res.out = Fail(ErrInvalidSequence)
           ELSE res.out = Ok([ZeroEvent EXCEPT !.Type = KeyEventType,
                                               !.VirtualKeyCode = SS3TableVK(arg[3]),
                                               !.KeyDown = TRUE,
                                               !.IsLegacy = TRUE], 3)
    /\ (Len(arg) >= 2 /\ arg[1] = ESC /\ arg[2] # 79) =>
         res.out = Fail(ErrInvalidSequence)

\* ESC O H followed by another byte was parsed as Home, consuming 3 bytes
C23_Witness ==
  /\ res.fn = "ParseLegacySS3"
  /\ Len(arg) = 4
  /\ SubSeq(arg, 1, 3) = <<ESC, 79, 72>>
  /\ res.out.err = NoErr
  /\ res.out.consumed = 3
  /\ res.out.event.VirtualKeyCode = VK_HOME


\* ESC [ < Pb ; X ; Y final, every field a single number
MouseFields(g) ==
  /\ g.kind = "csi"
  /\ g.lead = <<60>>
  /\ Len(g.groups) = 3
  /\ \A i \in 1..3 : Len(g.groups[i]) = 1 /\ g.groups[i][1] >= 0

\* value b (4, 8, 16, 32, 64) is set in pb
PbSet(pb, b) == (pb \div b) % 2 = 1

SubParam(g, i, j) ==
  IF i <= Len(g.groups) /\ j <= Len(g.groups[i]) /\ g.groups[i][j] >= 0
    THEN g.groups[i][j] ELSE 0

\* bit k of modifiers - 1 is set; never for a missing or zero modifiers field
KittyModBit(m, k) == m > 0 /\ ((m - 1) \div k) % 2 = 1

\* flag f is set in control_key_state x
HasFlag(x, f) == (x \div f) % 2 = 1

\* the control_key_state the modifiers field m stands for
KittyExpectedMods(m) ==
  (IF KittyModBit(m, 1) THEN ShiftPressed ELSE 0)
  + (IF KittyModBit(m, 2) THEN LeftAltPressed ELSE 0)
  + (IF KittyModBit(m, 4) \/ KittyModBit(m, 8) THEN LeftCtrlPressed ELSE 0)
  + (IF KittyModBit(m, 64) THEN CapsLockOn ELSE 0)
  + (IF KittyModBit(m, 128) THEN NumLockOn ELSE 0)

\* C27. For every sequence ParseKitty accepts: key_down = (event_type # 3),
\* event_type being the second number of the second field; repeat_count = 1;
\* unshifted_char is the first number of the first field when nonzero; the
\* bits of modifiers - 1 set Shift (bit 0), LeftAlt (1), LeftCtrl (2 and 3),
\* CapsLock (6), NumLock (7), and a missing or zero modifiers field sets
\* none: a key that carries no bit of its own ('a' with final 'u') has
\* exactly the decoded bits.
C27_KittyModifiers ==
  (res.fn = "ParseKitty" /\ given.kind = "csi" /\ res.out.err = NoErr) =>
    LET e == res.out.event
        m == SubParam(given, 2, 1)
    IN /\ e.KeyDown = (SubParam(given, 2, 2) # 3)
       /\ e.RepeatCount = 1
       /\ SubParam(given, 1, 1) > 0 => e.UnshiftedChar = SubParam(given, 1, 1)
       /\ \A f \in {ShiftPressed, LeftAltPressed, LeftCtrlPressed, CapsLockOn, NumLockOn} :
            HasFlag(KittyExpectedMods(m), f) => HasFlag(e.ControlKeyState, f)
       /\ (Len(given.groups) >= 1 /\ given.groups[1] = <<97>> /\ given.final = 117) =>
            e.ControlKeyState = KittyExpectedMods(m)

\* ESC [ 97 ; 9 : 3 u was parsed: the release of Super+a
C27_Witness ==
  /\ res.fn = "ParseKitty"
  /\ given.kind = "csi"
  /\ given.groups = <<<<97>>, <<9, 3>>>>
  /\ given.final = 117
  /\ res.out.err = NoErr
  /\ ~res.out.event.KeyDown
  /\ res.out.event.ControlKeyState = LeftCtrlPressed


\* the bytes between ESC [ and the final byte of a framed slice
FramePayload(data) == SubSeq(data, 3, scanCSI(data).terminatorIdx)

\* the final bytes ParseKitty accepts: u ~ A B C D E F H P Q R S
KittyFinals == {117, 126, 65, 66, 67, 68, 69, 70, 72, 80, 81, 82, 83}

\* payload pl has more than two ';'-separated groups
ManyGroups(pl) == Cardinality({k \in 1..Len(pl) : pl[k] = 59}) >= 2

\* a group of payload pl has more than three ':'-separated numbers
ManySubParams(pl) ==
  \E i \in 1..Len(pl), j \in 1..Len(pl) :
    /\ i <= j
    /\ \A k \in i..j : pl[k] # 59
    /\ Cardinality({k \in i..j : pl[k] = 58}) >= 3

\* payload pl holds a byte other than a digit, ';' and ':'
OtherByte(pl) == \E k \in 1..Len(pl) : pl[k] \notin (48..57) \cup {58, 59}

\* a focus or paste frame: ESC [ I, ESC [ O, ESC [ 200 ~, ESC [ 201 ~
FocusOrPasteFrame(data) ==
  \/ scanCSI(data).command \in {73, 79} /\ FramePayload(data) = <<>>
  \/ scanCSI(data).command = 126
     /\ FramePayload(data) \in {<<50, 48, 48>>, <<50, 48, 49>>}

\* C28. ParseKitty returns InvalidSequence when the terminator is not one of
\* u, ~, A, B, C, D, E, F, H, P, Q, R, S, when the payload has more than two
\* ';' groups, a group with more than three ':' numbers, or a byte other
\* than a digit, ';' and ':'.  In the reader a framed CSI whose terminator is
\* none of '_', 'M', 'm' and that is no focus or paste frame goes to
\* ParseKitty first, and to ParseLegacyCSI only when ParseKitty returned
\* InvalidSequence.
C28_KittyShapeAndFallback ==
  scanCSI(arg).err = NoErr =>
    /\ (res.fn = "ParseKitty"
        /\ (\/ scanCSI(arg).command \notin KittyFinals
            \/ ManyGroups(FramePayload(arg))
            \/ ManySubParams(FramePayload(arg))
            \/ OtherByte(FramePayload(arg)))) =>
         res.out = Fail(ErrInvalidSequence)
    /\ (res.fn = "Decide"
        /\ scanCSI(arg).command \notin {95, 77, 109}
        /\ ~FocusOrPasteFrame(arg)) =>
         IF ParseKitty(arg).err # ErrInvalidSequence
           THEN res.out = Emit(ParseKitty(arg).event, ParseKitty(arg).consumed, "kitty")
         ELSE IF ParseLegacyCSI(arg).err = NoErr
           THEN res.out = Emit(ParseLegacyCSI(arg).event,
                               ParseLegacyCSI(arg).consumed, "legacyCSI")
         ELSE res.out.path \notin {"kitty", "legacyCSI"}

\* the reader was given ESC [ 1 ; 1 ; 1 A: three groups, which ParseKitty
\* rejects and ParseLegacyCSI decodes as Up
C28_Witness ==
  /\ res.fn = "Decide"
  /\ arg = <<ESC, 91, 49, 59, 49, 59, 49, 65>>
  /\ ParseKitty(arg).err = ErrInvalidSequence
  /\ res.out.path = "legacyCSI"
  /\ res.out.event.VirtualKeyCode = VK_UP


\* the VK of a C0 byte as the claim lists them
C0TableVK(b) ==
  CASE b = 0 -> VK_SPACE
    [] b = 8 -> VK_BACK
    [] b = 9 -> VK_TAB
    [] b = 13 -> VK_RETURN
    [] b = 28 -> VK_OEM_5
    [] b = 29 -> VK_OEM_6
    [] b = 30 -> VK_6
    [] b = 31 -> VK_OEM_MINUS
    [] OTHER -> VK_A + (b - 1)

\* the C0 bytes the translator has an event for: 0x00..0x1A and 0x1C..0x1F
C0Bytes == (0..26) \cup (28..31)

FocusEvent(f) == [ZeroEvent EXCEPT !.Type = FocusEventType, !.SetFocus = f]

\* the Paste event with paste_start = f
PasteEvent(f) == [ZeroEvent EXCEPT !.Type = PasteEventType, !.PasteStart = f]

\* C26. ReadEvent returns Focus with set_focus = true for exactly ESC [ I and
\* false for exactly ESC [ O, consuming 3 bytes; Paste with paste_start =
\* true for ESC [ 200 ~ and false for ESC [ 201 ~, consuming the frame; a
\* '~' frame with another payload, or an I or O frame with parameters, is
\* never returned as Focus or Paste.
C26_FocusPaste ==
  \A i \in 1..Len(evlog) :
    LET b == evlog[i].before
        e == evlog[i].event
        n == evlog[i].consumed
    IN /\ IsPrefix(<<ESC, 91, 73>>, b) => (e = FocusEvent(TRUE) /\ n = 3)
       /\ IsPrefix(<<ESC, 91, 79>>, b) => (e = FocusEvent(FALSE) /\ n = 3)
       /\ IsPrefix(TildeSeq(200), b) => (e = PasteEvent(TRUE) /\ n = 6)
       /\ IsPrefix(TildeSeq(201), b) => (e = PasteEvent(FALSE) /\ n = 6)
       /\ e.Type = FocusEventType =>
            (IsPrefix(<<ESC, 91, 73>>, b) \/ IsPrefix(<<ESC, 91, 79>>, b))
       /\ e.Type = PasteEventType =>
            (IsPrefix(TildeSeq(200), b) \/ IsPrefix(TildeSeq(201), b))

\* ESC [ 200 ~ was returned as the start of a paste
C26_Witness ==
  \E i \in 1..Len(evlog) :
    /\ evlog[i].before = TildeSeq(200)
    /\ evlog[i].event.PasteStart
    /\ evlog[i].consumed = 6
    /\ evlog[i].after = <<>>


\* C33. ParseWin32InputEvent returns repeat_count >= 1 for every value of
\* the Rc field: missing, empty, 0 and every positive decimal integer, those
\* of 65536 and above included.
C33_RepeatAtLeastOne ==
  (res.fn = "ParseWin32InputEvent" /\ res.out.err = NoErr) =>
    res.out.event.RepeatCount >= 1

\* C39. If entering raw mode fails, EnableProtocols writes nothing and
\* returns the error with no restore function; if writing the enable strings
\* fails, the terminal has its prior attributes when the error is returned,
\* and no restore function is returned.
C39_EnableErrors ==
  /\ (term.pc = "failed" /\ term.err = ErrMakeRaw) =>
       /\ term.out = <<>>
       /\ ~term.restore
       /\ term.mode = term.prior
  /\ (term.pc = "failed" /\ term.err = ErrWrite) =>
       /\ term.mode = term.prior
       /\ ~term.restore
  /\ term.pc = "failed" => term.err # NoErr
  /\ term.pc \in {"enabled", "restored"} => (term.err = NoErr /\ term.restore)

\* the write of the enable strings of all four protocols failed half way
C39_Witness ==
  /\ term.pc = "failed"
  /\ term.err = ErrWrite
  /\ term.p = DefaultProtocols
  /\ term.out # <<>>
  /\ term.prior = "cbreak"


\* the parsers that return (event, consumed, err)
EventParsers ==
  {"ParseWin32InputEvent", "ParseLegacyCSI", "ParseLegacySS3",
   "ParseMouseSGR", "ParseKitty"}

\* Go index of the byte that ends the sequence a parser accepted: the third
\* byte after ESC O, the first byte outside 0x20..0x3F after ESC [
TerminatorIndex(fn, data) ==
  IF fn = "ParseLegacySS3" THEN 2 ELSE FirstNonParam(data)

\* C40. For every payload ParseKitty returns InvalidSequence or keeps its
\* group index in 0..1 and its sub-parameter index in 0..2, so that it never
\* indexes its 2x3 table out of range; every parser returns a nil event and
\* consumed = 0 on error, and on success a non-nil event and
\* consumed = terminator index + 1, at most the length of the slice.
C40_ParserReturns ==
  res.fn \in EventParsers =>
    /\ res.out.err # PanicIndex
    /\ res.out.err # NoErr =>
         (res.out.event = ZeroEvent /\ res.out.consumed = 0)
    /\ res.out.err = NoErr =>
         /\ res.out.event # ZeroEvent
         /\ res.out.consumed = TerminatorIndex(res.fn, arg) + 1
         /\ res.out.consumed <= Len(arg)

\* ParseKitty refused a payload of three groups, which ends with a digit
C40_Witness ==
  /\ res.fn = "ParseKitty"
  /\ res.out.err = ErrInvalidSequence
  /\ Len(arg) = 6
  /\ arg[3] = 59 /\ arg[4] = 59 /\ arg[5] = 49


\* the base code of a given Kitty key: the third number of the first field
\* when nonzero, else the first; 'A'..'Z' lowered
KittyBaseOf(g) ==
  LET b == IF SubParam(g, 1, 3) # 0 THEN SubParam(g, 1, 3) ELSE SubParam(g, 1, 1)
  IN IF b >= 65 /\ b <= 90 THEN b + 32 ELSE b

\* base code |-> VK for the codes that mean the same key with every final
KittyKeyTable ==
  { <<96, VK_OEM_3>>, <<45, VK_OEM_MINUS>>, <<61, VK_OEM_PLUS>>,
    <<91, VK_OEM_4>>, <<93, VK_OEM_6>>, <<92, VK_OEM_5>>, <<59, VK_OEM_1>>,
    <<39, VK_OEM_7>>, <<44, VK_OEM_COMMA>>, <<46, VK_OEM_PERIOD>>,
    <<47, VK_OEM_2>>, <<9, VK_TAB>>, <<27, VK_ESCAPE>>, <<127, VK_BACK>>,
    <<32, VK_SPACE>>,
    <<57399, 96>>, <<57425, 96>>, <<57400, 97>>, <<57424, 97>>,
    <<57401, 98>>, <<57420, 98>>, <<57402, 99>>, <<57422, 99>>,
    <<57403, 100>>, <<57417, 100>>, <<57404, 101>>, <<57427, 101>>,
    <<57405, 102>>, <<57418, 102>>, <<57406, 103>>, <<57423, 103>>,
    <<57407, 104>>, <<57419, 104>>, <<57408, 105>>, <<57421, 105>>,
    <<57409, VK_DECIMAL>>, <<57426, VK_DECIMAL>>, <<57410, VK_DIVIDE>>,
    <<57411, VK_MULTIPLY>>, <<57412, VK_SUBTRACT>>, <<57413, VK_ADD>>,
    <<57414, VK_RETURN>>, <<57444, VK_LWIN>>, <<57450, VK_RWIN>>,
    <<57363, VK_APPS>>, <<57448, VK_CONTROL>>, <<57442, VK_CONTROL>>,
    <<57443, VK_MENU>>, <<57449, VK_MENU>>, <<57441, VK_SHIFT>>,
    <<57447, VK_SHIFT>>, <<57360, VK_NUMLOCK>>, <<57358, VK_CAPITAL>> }

\* number |-> VK for the functional keys sent with the final '~'
KittyTildeTable ==
  { <<2, VK_INSERT>>, <<3, VK_DELETE>>, <<5, VK_PRIOR>>, <<6, VK_NEXT>>,
    <<11, VK_F1>>, <<12, VK_F2>>, <<13, VK_F3>>, <<14, VK_F4>>, <<15, VK_F5>>,
    <<17, 117>>, <<18, 118>>, <<19, 119>>, <<20, 120>>, <<21, 121>>,
    <<23, 122>>, <<24, 123>> }

\* final byte |-> the VK that overrides the one of the base code
KittyTerminatorTable ==
  { <<65, VK_UP>>, <<66, VK_DOWN>>, <<67, VK_RIGHT>>, <<68, VK_LEFT>>,
    <<69, VK_CLEAR>>, <<72, VK_HOME>>, <<70, VK_END>>,
    <<80, VK_F1>>, <<81, VK_F2>>, <<82, VK_F3>>, <<83, VK_F4>> }

\* the value paired with k in table, 0 when k is not in it
Lookup(table, k) ==
  IF \E p \in table : p[1] = k THEN (CHOOSE p \in table : p[1] = k)[2] ELSE 0

\* the VK of base code b sent with the final byte c, 0 when none is mapped
KittyExpectedVK(b, c) ==
  IF Lookup(KittyTerminatorTable, c) # 0 THEN Lookup(KittyTerminatorTable, c)
  ELSE IF c = 126 /\ Lookup(KittyTildeTable, b) # 0 THEN Lookup(KittyTildeTable, b)
  ELSE IF c = 117 /\ b = 8 THEN VK_BACK
  ELSE IF b = 13 THEN VK_RETURN
  ELSE IF b >= 97 /\ b <= 122 THEN 65 + (b - 97)
  ELSE IF b >= 48 /\ b <= 57 THEN b
  ELSE Lookup(KittyKeyTable, b)

\* modifier-key code |-> the modifier bit of that key
KittyModifierKeys ==
  { <<57441, ShiftPressed>>, <<57447, ShiftPressed>>,
    <<57442, LeftCtrlPressed>>, <<57448, RightCtrlPressed>>,
    <<57443, LeftAltPressed>>, <<57449, RightAltPressed>> }

\* C31. For every sequence ParseKitty accepts: the base code is the third
\* number of the first field when nonzero, else the first, with 'A'..'Z'
\* lowered; the VK is that of the base code (letters, digits, OEM
\* punctuation, 9/27/13/127/32 as Tab/Esc/Return/Back/Space, functional
\* codes; '~' with 13 is F3, 'u' with 8 is Backspace) unless the final byte
\* is one of A..D, E, H, F, P..S, which gives its own VK, with Enhanced set
\* for the arrows, Home and End; for the modifier-key codes 57441, 57442,
\* 57443, 57447, 57448, 57449 the bit of that modifier is ORed into
\* control_key_state when and only when event_type # 3.
C31_KittyVK ==
  (res.fn = "ParseKitty" /\ given.kind = "csi" /\ res.out.err = NoErr
   /\ Len(given.groups) >= 1) =>
    LET e == res.out.event
        b == KittyBaseOf(given)
        vk == KittyExpectedVK(b, given.final)
        own == Lookup(KittyModifierKeys, b)
    IN /\ vk # 0 => e.VirtualKeyCode = vk
       /\ vk = 0 => e.VirtualKeyCode \in {0, VK_UNASSIGNED}
       /\ given.final \in {65, 66, 67, 68, 72, 70} =>
            HasFlag(e.ControlKeyState, EnhancedKey)
       /\ (own # 0 /\ SubParam(given, 2, 2) # 3) =>
            HasFlag(e.ControlKeyState, own)
       /\ (own # 0 /\ SubParam(given, 2, 2) = 3) =>
            (HasFlag(e.ControlKeyState, own)
               <=> HasFlag(KittyExpectedMods(SubParam(given, 2, 1)), own))

\* ESC [ 57448 ; 3 : 3 u was parsed: the release of the right Ctrl key with
\* Alt held
C31_Witness ==
  /\ res.fn = "ParseKitty"
  /\ res.out.err = NoErr
  /\ given.kind = "csi"
  /\ given.groups = <<<<57448>>, <<3, 3>>>>
  /\ given.final = 117
  /\ res.out.event.VirtualKeyCode = VK_CONTROL
  /\ ~res.out.event.KeyDown


\* the carrier number of a given Kitty key: the second number of the first
\* field when nonzero, else the first
KittyCarrierOf(g) ==
  IF SubParam(g, 1, 2) # 0 THEN SubParam(g, 1, 2) ELSE SubParam(g, 1, 1)

\* the carrier is dropped: below 32, 127, or a functional code
KittyDropped(uc) == uc < 32 \/ uc = 127 \/ (uc >= 57358 /\ uc <= 57454)

\* a Unicode scalar value: no surrogate, at most U+10FFFF
IsScalar(uc) == uc >= 0 /\ uc <= 1114111 /\ ~(uc >= 55296 /\ uc <= 57343)

\* event e carries char c0 under the uppercasing rules, and VK_UNASSIGNED
\* when c0 is nonzero and the key of g maps to no VK
KittyCharRule(g, e, c0) ==
  LET caps == HasFlag(e.ControlKeyState, CapsLockOn)
                /\ ~HasFlag(e.ControlKeyState, ShiftPressed)
      alt == (HasFlag(e.ControlKeyState, LeftAltPressed)
                \/ HasFlag(e.ControlKeyState, RightAltPressed))
             /\ e.VirtualKeyCode \notin
                  {VK_ESCAPE, VK_DELETE, VK_BACK, VK_TAB, VK_RETURN, VK_SPACE}
  IN /\ e.Char = IF caps \/ alt THEN ToUpper(c0) ELSE c0
     /\ (c0 # 0 /\ KittyExpectedVK(KittyBaseOf(g), g.final) = 0) =>
          e.VirtualKeyCode = VK_UNASSIGNED

DropFirst(s, n) == SubSeq(s, n + 1, Len(s))

\* C36. When the timeout of waitForMore fires on a buffer longer than one
\* byte (an incomplete sequence such as ESC [ 1 ; or ESC O), ReadEvent
\* removes the leading ESC only and returns a key-down Esc event; the bytes
\* left hold no ESC, stay at the head of the buffer unchanged, and every
\* later event that consumes one of them comes from the non-ESC branch (a C0
\* key, DEL or a UTF-8 scalar) with those bytes at the head of its buffer.
C36_TimeoutKeepsRest ==
  \A i \in 1..Len(evlog) :
    (evlog[i].path = "timeout" /\ Len(evlog[i].before) > 1) =>
      LET rest == DropFirst(evlog[i].before, 1)
      IN /\ evlog[i].before[1] = ESC
         /\ evlog[i].consumed = 1
         /\ IsEscKeyDown(evlog[i].event)
         /\ evlog[i].after = rest
         /\ \A k \in 1..Len(rest) : rest[k] # ESC
         /\ i = Len(evlog) => IsPrefix(rest, buf)
         /\ \A j \in (i + 1)..Len(evlog) :
              LET used == ConsumedCount(evlog, j - 1) - ConsumedCount(evlog, i)
              IN used < Len(rest) =>
                   /\ IsPrefix(DropFirst(rest, used), evlog[j].before)
                   /\ evlog[j].path \in {"c0", "utf8", "del"}
                   /\ evlog[j].event.Type = KeyEventType

\* the timeout fired on ESC [ 1 ; and the three bytes left were returned as
\* the keys '[', '1' and ';'
C36_Witness ==
  \E i \in 1..Len(evlog) :
    /\ evlog[i].path = "timeout"
    /\ evlog[i].before = <<ESC, 91, 49, 59>>
    /\ Len(evlog) >= i + 3
    /\ evlog[i + 1].event.Char = 91
    /\ evlog[i + 2].event.Char = 49
    /\ evlog[i + 3].event.Char = 59


\* b starts with ESC [ and a byte outside 0x20..0x7E comes before any final
\* byte: the framer reports InvalidSequence
CSIInvalidFrame(b) ==
  /\ Len(b) >= 2 /\ b[1] = ESC /\ b[2] = 91
  /\ FirstNonParam(b) < Len(b)
  /\ (b[FirstNonParam(b) + 1] < 64 \/ b[FirstNonParam(b) + 1] > 126)

\* the frame of b (final byte c at Go index t) is one ReadEvent answers
\* itself: a focus report or a paste bracket
CSIOwnFrame(b, t, c) ==
  \/ (c = 73 \/ c = 79) /\ t = 2
  \/ c = 126 /\ SubSeq(b, 3, t) \in {<<50, 48, 48>>, <<50, 48, 49>>}

\* every parser ReadEvent tries on a frame with final byte c refuses b
CSIRefused(b, c) ==
  IF c = 95 THEN ParseWin32InputEvent(b).err # NoErr
  ELSE IF c = 77 \/ c = 109 THEN ParseMouseSGR(b).err # NoErr
  ELSE ParseKitty(b).err # NoErr /\ ParseLegacyCSI(b).err # NoErr

\* b starts with a complete CSI frame that every applicable parser rejects
CSIRejectedFrame(b) ==
  /\ Len(b) >= 2 /\ b[1] = ESC /\ b[2] = 91
  /\ FirstNonParam(b) < Len(b)
  /\ b[FirstNonParam(b) + 1] >= 64 /\ b[FirstNonParam(b) + 1] <= 126
  /\ ~CSIOwnFrame(b, FirstNonParam(b), b[FirstNonParam(b) + 1])
  /\ CSIRefused(b, b[FirstNonParam(b) + 1])

\* the legacy Alt+'[' key press
IsAltBracket(e) ==
  /\ e.Type = KeyEventType
  /\ e.Char = 91
  /\ e.ControlKeyState = LeftAltPressed
  /\ e.KeyDown
  /\ e.IsLegacy
  /\ e.VirtualKeyCode = 0

\* C38. Invalid CSI fallback: when the buffer starts with ESC [ and the
\* framer reports InvalidSequence, or starts with a complete frame that
\* every applicable parser rejects, ReadEvent returns at once (it does not
\* wait), consumes ESC and '[' only, returns the legacy Alt+'[' key press
\* (char '[', LeftAlt) and leaves the bytes that follow in the buffer.
C38_InvalidCSIFallback ==
  /\ \A i \in 1..Len(evlog) :
       (CSIInvalidFrame(evlog[i].before) \/ CSIRejectedFrame(evlog[i].before)) =>
         /\ evlog[i].consumed = 2
         /\ IsAltBracket(evlog[i].event)
         /\ evlog[i].after = DropFirst(evlog[i].before, 2)
  /\ conPc \in {"wait", "block"} =>
       ~(CSIInvalidFrame(buf) \/ CSIRejectedFrame(buf))
  /\ (res.fn = "Decide" /\ (CSIInvalidFrame(arg) \/ CSIRejectedFrame(arg))) =>
       /\ res.out.kind = "event"
       /\ res.out.consumed = 2
       /\ IsAltBracket(res.out.event)

\* ESC [ M a arrived in one piece: the mouse parser rejected ESC [ M,
\* Alt+'[' was returned, and 'M' then 'a' were returned as keys
C38_Witness ==
  /\ Len(evlog) = 3
  /\ evlog[1].before = <<ESC, 91, 77, 97>>
  /\ CSIRejectedFrame(evlog[1].before)
  /\ evlog[1].path = "alt"
  /\ evlog[2].event.Char = 77
  /\ evlog[3].event.Char = 97


RECURSIVE SeqRun(_, _)
\* the events of the bytes q handed one at a time to a reader whose buffer
\* holds b, with no timeout and no end of the source: after each byte the
\* reader returns every event the buffer gives
SeqRun(b, q) ==
  IF Decide(b).kind = "event"
    THEN <<Decide(b).event>> \o SeqRun(DropFirst(b, Decide(b).consumed), q)
  ELSE IF q # <<>> THEN SeqRun(Append(b, Head(q)), Tail(q))
  ELSE <<>>

\* no event so far is the timeout's Esc
NoTimeoutFired == \A i \in 1..Len(evlog) : evlog[i].path # "timeout"

C34_BoundedQueue ==
  /\ Len(dataChan) <= DataChanCap
  /\ prodPc = "push" => ((ENABLED ProdPush) <=> Len(dataChan) < DataChanCap)
  /\ ConsumedBytes(evlog) \o buf \o dataChan = SubSeq(stream, 1, Pushed)
  /\ Pushed <= srcPos
  /\ appended = SubSeq(stream, 1, Len(appended))

\* the queue was full with the producer blocked on the 1025th byte, the
\* caller took a byte, and the producer pushed the byte it held: the queue is
\* full again and every byte of the source is pushed
C34_Witness ==
  /\ Len(stream) = DataChanCap + Overrun
  /\ Pushed = Len(stream)
  /\ Len(dataChan) = DataChanCap
  /\ Len(appended) = Overrun
  /\ Len(evlog) >= 1


\* C35. The producer publishes on r.errChan at most once (the channel holds
\* an error, or the caller has taken it, only when the goroutine has
\* returned, and never both), only after every byte the source returned,
\* those returned by the same Read as the error included, has been pushed
\* onto r.dataChan; once it has published it takes no further step, so it
\* pushes no byte afterwards; and the send on the one-slot channel never
\* blocks: whenever the producer is about to publish the channel is empty.
C35_PublishOnce ==
  /\ Len(errChan) <= ErrChanCap
  /\ (errChan # <<>> \/ errTaken) => prodPc = "done"
  /\ ~(errChan # <<>> /\ errTaken)
  /\ prodPc = "done" =>
       /\ errChan # <<>> \/ errTaken
       /\ Pushed = srcPos
       /\ srcPos = Len(stream)
       /\ ~(ENABLED ProdRead) /\ ~(ENABLED ProdPush) /\ ~(ENABLED ProdPublish)
  /\ prodPc = "publish" =>
       /\ Pushed = srcPos
       /\ prodErr # NoErr
       /\ errChan = <<>> /\ ~errTaken
       /\ ENABLED ProdPublish

\* the last Read returned the last byte of ESC [ A together with EIO; the
\* byte was pushed, then the error was published while bytes were still
\* queued
C35_Witness ==
  /\ prodPc = "done"
  /\ errChan = <<"EIO">>
  /\ stream = <<ESC, 91, 65>>
  /\ tmp = <<65>>
  /\ dataChan # <<>>
  /\ dataChan[Len(dataChan)] = 65

=============================================================================
